---- MODULE Spec2Model ----
(***************************************************************************)
(* Primordial Garden 2.0: the generation-step engine of enhanced_engine.   *)
(*                                                                         *)
(* Grid.step() is modelled phase by phase (pc is the position inside       *)
(* step()); the loops that draw from the RNG advance one iteration per     *)
(* action, the deterministic loops run inside one action.                  *)
(*                                                                         *)
(* Numbers.  Cell energy, ages and counters are Python ints.  Float traits *)
(* are kept in hundredths (colonial_affinity 1.2 is 120), mutation_rate in *)
(* thousandths, zone multipliers in tenths.  Every float expression of the *)
(* source is evaluated as an exact rational <<num, den>> and int() is the  *)
(* floor of that rational (all the operands are non-negative).             *)
(*                                                                         *)
(* Objects.  Cell objects live in cellobj (index = object identity), the   *)
(* grid holds references (0 is None).  Species objects live in species     *)
(* (index = object identity, in creation order); species_by_id maps an id  *)
(* to the object registered under it, extinct_species lists objects.       *)
(***************************************************************************)
EXTENDS Integers, Sequences, FiniteSets, TLC

\* ------------------------------------------------------------------ bounds
MaxGen == 2
MaxSpecies == 3

\* ------------------------------------------------------- small utilities
Max2(a, b) == IF a >= b THEN a ELSE b
Min2(a, b) == IF a <= b THEN a ELSE b
Abs(a) == IF a < 0 THEN 0 - a ELSE a
Clamp(lo, hi, v) == Max2(lo, Min2(hi, v))

RECURSIVE Gcd(_, _)
Gcd(a, b) == IF b = 0 THEN a ELSE Gcd(b, a % b)

\* exact rationals <<num, den>>, den > 0, num >= 0
RNorm(r) == LET g == Gcd(r[1], r[2]) IN IF g = 0 THEN r ELSE <<r[1] \div g, r[2] \div g>>
RMul(a, b) ==
  LET g1 == Gcd(a[1], b[2])
      g2 == Gcd(b[1], a[2])
      a1 == IF g1 = 0 THEN a[1] ELSE a[1] \div g1
      b2 == IF g1 = 0 THEN b[2] ELSE b[2] \div g1
      b1 == IF g2 = 0 THEN b[1] ELSE b[1] \div g2
      a2 == IF g2 = 0 THEN a[2] ELSE a[2] \div g2
  IN <<a1 * b1, a2 * b2>>
RDiv(a, b) == RMul(a, <<b[2], b[1]>>)
RInt(n) == <<n, 1>>
RFloor(r) == r[1] \div r[2]
RLt(a, b) == a[1] * b[2] < b[1] * a[2]
RLe(a, b) == a[1] * b[2] <= b[1] * a[2]

\* ------------------------------------------------------------- the traits
\* SpeciesTraits dataclass defaults
DefaultTraits ==
  [ base_energy |-> 100, energy_decay |-> 2, energy_from_birth |-> 50,
    photosynthesis_rate |-> 3, movement_range |-> 1, movement_cost |-> 1,
    hunting_efficiency |-> 50, can_be_consumed |-> TRUE,
    colonial_affinity |-> 120, cluster_reproduction_bonus |-> 130,
    reproduction_threshold |-> 60, mutation_rate |-> 10,
    sexual_reproduction |-> FALSE, complexity |-> 1,
    metabolic_efficiency |-> 100, heat_tolerance |-> 50,
    cold_tolerance |-> 50, toxin_resistance |-> 50,
    max_lifespan |-> 200, age_decline_start |-> 70,
    energy_source |-> "photosynthesis", starvation_threshold |-> 10,
    optimal_zone_bonus |-> 200, native_zone_type |-> "fertile",
    native_zone_affinity |-> 150 ]

\* SpeciesTraits.__post_init__: clamp into range, derive movement_cost
PostInit(t) ==
  LET c == Clamp(1, 5, t.complexity) IN
  [ t EXCEPT
      !.base_energy = Clamp(1, 200, t.base_energy),
      !.energy_decay = Clamp(1, 10, t.energy_decay),
      !.photosynthesis_rate = Clamp(0, 20, t.photosynthesis_rate),
      !.mutation_rate = Clamp(0, 1000, t.mutation_rate),
      !.complexity = c,
      !.metabolic_efficiency = Clamp(50, 200, t.metabolic_efficiency),
      !.heat_tolerance = Clamp(0, 100, t.heat_tolerance),
      !.cold_tolerance = Clamp(0, 100, t.cold_tolerance),
      !.toxin_resistance = Clamp(0, 100, t.toxin_resistance),
      !.max_lifespan = Clamp(0, 1000, t.max_lifespan),
      !.colonial_affinity = Clamp(100, 150, t.colonial_affinity),
      !.cluster_reproduction_bonus = Clamp(100, 200, t.cluster_reproduction_bonus),
      !.movement_cost = Max2(1, 1 + (c \div 2)) ]

get_complexity_cost(t) == <<10 + (t.complexity - 1) * 3, 10>>

get_adaptation_bonus(t, zone_type) ==
  IF zone_type = "desert" THEN <<50 + t.heat_tolerance, 100>>
  ELSE IF zone_type = "fertile" THEN <<200 + (100 - Abs(t.heat_tolerance - 50)), 200>>
  ELSE IF zone_type = "toxic" THEN <<300 + 12 * t.toxin_resistance, 1000>>
  ELSE IF zone_type = "paradise" THEN <<3, 2>>
  ELSE <<1, 1>>

is_optimal_zone(t, zone_type) ==
  \/ zone_type = "desert" /\ t.heat_tolerance > 70
  \/ zone_type = "fertile" /\ 40 <= t.heat_tolerance /\ t.heat_tolerance <= 60
  \/ zone_type = "toxic" /\ t.toxin_resistance > 70
  \/ zone_type = "paradise"

get_energy_source_multiplier(t, has_prey_nearby) ==
  IF t.energy_source = "photosynthesis" THEN <<1, 1>>
  ELSE IF t.energy_source = "predation"
       THEN (IF has_prey_nearby THEN <<2, 1>> ELSE <<1, 10>>)
  ELSE (IF has_prey_nearby THEN <<3, 2>> ELSE <<7, 10>>)

get_movement_strategy(t) ==
  IF t.complexity = 1 THEN "energy_seeking"
  ELSE IF t.complexity = 2 THEN "flee"
  ELSE "hunt"

can_hunt(t) == t.complexity >= 3

\* min(0.8, 0.35 + 0.15 * complexity), 0.0 for a non-hunter
get_hunting_efficiency(t) ==
  IF ~can_hunt(t) THEN <<0, 1>>
  ELSE IF 35 + 15 * t.complexity > 80 THEN <<80, 100>>
  ELSE <<35 + 15 * t.complexity, 100>>

\* int(prey_cell.energy * actual_efficiency) in process_predation.  The
\* efficiency is a double: 0.35 + 4 * 0.15 and 0.35 + 5 * 0.15 exceed 0.8 and
\* min() returns the double 0.8, but 0.35 + 3 * 0.15 evaluates to
\* 0.7999999999999999, and the product of that double with a multiple of 5
\* can fall just short of the whole number 0.8 * energy, which int() then
\* truncates to one less.  ShortOfWhole lists the energies in 0 .. 400 (twice
\* the largest base_energy) where the double product falls short.
ShortOfWhole ==
  { 5, 10, 15, 20, 30, 35, 40, 55, 60, 65, 70, 75, 80, 110, 115, 120,
    125, 130, 135, 140, 145, 150, 155, 160, 215, 220, 225, 230, 235,
    240, 245, 250, 255, 260, 265, 270, 275, 280, 285, 290, 295, 300,
    305, 310, 315, 320 }

\* the gain of a predator with traits t from a prey with the given energy;
\* int() truncates towards zero
energy_gained(energy, t) ==
  LET whole == RFloor(RMul(RInt(Abs(energy)), get_hunting_efficiency(t)))
      short == IF t.complexity = 3 /\ Abs(energy) \in ShortOfWhole THEN whole - 1 ELSE whole
  IN IF energy < 0 THEN 0 - short ELSE short

\* ------------------------------------------------------------ the mutation
\* One outcome of the RNG draws of Species.mutate: the delta added to every
\* numeric trait, whether the 2% flip happened, and the outcome of the two
\* categorical mutations ("keep" when the chance did not fire).
ZeroDraw ==
  [ complexity |-> 0, base_energy |-> 0, energy_decay |-> 0,
    energy_from_birth |-> 0, photosynthesis_rate |-> 0, movement_range |-> 0,
    hunting_efficiency |-> 0, colonial_affinity |-> 0,
    cluster_reproduction_bonus |-> 0, reproduction_threshold |-> 0,
    mutation_rate |-> 0, flip_sexual |-> FALSE, metabolic_efficiency |-> 0,
    heat_tolerance |-> 0, cold_tolerance |-> 0, toxin_resistance |-> 0,
    max_lifespan |-> 0, age_decline_start |-> 0, energy_source |-> "keep",
    starvation_threshold |-> 0, optimal_zone_bonus |-> 0,
    native_zone_type |-> "keep", native_zone_affinity |-> 0 ]

MutationDraws ==
  { ZeroDraw,
    [ZeroDraw EXCEPT !.base_energy = -5, !.energy_from_birth = 5,
                     !.reproduction_threshold = -5, !.max_lifespan = -20,
                     !.photosynthesis_rate = -1, !.native_zone_affinity = -10],
    [ZeroDraw EXCEPT !.complexity = 1, !.energy_decay = 1, !.flip_sexual = TRUE,
                     !.energy_source = "predation", !.native_zone_type = "neutral",
                     !.mutation_rate = -5, !.heat_tolerance = 10] }

_mutate_value_int(value, delta) == Max2(1, value + delta)
_mutate_value_float(value, delta) == Max2(0, Min2(100, value + delta))

\* the SpeciesTraits(...) call of Species.mutate, __post_init__ included
MutateTraits(t, d) ==
  PostInit(
    [ base_energy |-> _mutate_value_int(t.base_energy, d.base_energy),
      energy_decay |-> _mutate_value_int(t.energy_decay, d.energy_decay),
      energy_from_birth |-> _mutate_value_int(t.energy_from_birth, d.energy_from_birth),
      photosynthesis_rate |-> _mutate_value_int(t.photosynthesis_rate, d.photosynthesis_rate),
      movement_range |-> _mutate_value_int(t.movement_range, d.movement_range),
      movement_cost |-> 1,
      hunting_efficiency |-> _mutate_value_float(t.hunting_efficiency, d.hunting_efficiency),
      can_be_consumed |-> t.can_be_consumed,
      colonial_affinity |-> _mutate_value_float(t.colonial_affinity, d.colonial_affinity),
      cluster_reproduction_bonus |->
        _mutate_value_float(t.cluster_reproduction_bonus, d.cluster_reproduction_bonus),
      reproduction_threshold |->
        _mutate_value_int(t.reproduction_threshold, d.reproduction_threshold),
      mutation_rate |-> Max2(0, Min2(1000, t.mutation_rate + d.mutation_rate)),
      sexual_reproduction |->
        IF d.flip_sexual THEN ~t.sexual_reproduction ELSE t.sexual_reproduction,
      complexity |-> _mutate_value_int(t.complexity, d.complexity),
      metabolic_efficiency |->
        _mutate_value_float(t.metabolic_efficiency, d.metabolic_efficiency),
      heat_tolerance |-> _mutate_value_float(t.heat_tolerance, d.heat_tolerance),
      cold_tolerance |-> _mutate_value_float(t.cold_tolerance, d.cold_tolerance),
      toxin_resistance |-> _mutate_value_float(t.toxin_resistance, d.toxin_resistance),
      max_lifespan |-> _mutate_value_int(t.max_lifespan, d.max_lifespan),
      age_decline_start |-> _mutate_value_float(t.age_decline_start, d.age_decline_start),
      energy_source |->
        IF d.energy_source = "keep" THEN t.energy_source ELSE d.energy_source,
      starvation_threshold |->
        _mutate_value_int(t.starvation_threshold, d.starvation_threshold),
      optimal_zone_bonus |-> _mutate_value_float(t.optimal_zone_bonus, d.optimal_zone_bonus),
      native_zone_type |->
        IF d.native_zone_type = "keep" THEN t.native_zone_type ELSE d.native_zone_type,
      native_zone_affinity |->
        _mutate_value_float(t.native_zone_affinity, d.native_zone_affinity) ])

\* a constructor that forgets to advance the class counter
SameId(n) == n

\* Species.__init__: Species._next_id += 1
AdvanceId(n) == n + 1

\* Species.__init__: the object, with the id taken from the class counter
NewSpecies(id, traits, parent_id, generation_born) ==
  [ id |-> id, traits |-> traits, parent_id |-> parent_id, population |-> 0,
    total_births |-> 0, total_deaths |-> 0, generation_born |-> generation_born ]

\* --------------------------------------------------------------- the zones
\* ZoneProperties.from_type; tag is name.lower().split()[0]
ZoneProps(ztype) ==
  LET base == [ tag |-> "neutral", energy_generation_mult |-> 10,
                energy_decay_mult |-> 10, mutation_rate_mult |-> 10,
                can_enter |-> TRUE, carrying_capacity |-> 100 ]
  IN CASE ztype = "fertile" ->
            [base EXCEPT !.tag = "fertile", !.energy_generation_mult = 15,
                         !.energy_decay_mult = 8, !.carrying_capacity = 120]
       [] ztype = "desert" ->
            [base EXCEPT !.tag = "desert", !.energy_generation_mult = 5,
                         !.energy_decay_mult = 15, !.carrying_capacity = 60]
       [] ztype = "toxic" ->
            [base EXCEPT !.tag = "toxic", !.energy_decay_mult = 20,
                         !.mutation_rate_mult = 30, !.carrying_capacity = 40]
       [] ztype = "paradise" ->
            [base EXCEPT !.tag = "paradise", !.energy_generation_mult = 20,
                         !.energy_decay_mult = 5, !.mutation_rate_mult = 5,
                         !.carrying_capacity = 150]
       [] ztype = "void" ->
            [base EXCEPT !.tag = "the", !.can_enter = FALSE, !.carrying_capacity = 0]
       [] OTHER -> base

NewZone(x, y, w, h, props) ==
  [ x |-> x, y |-> y, width |-> w, height |-> h, properties |-> props, grid |-> FALSE ]

contains(z, x, y) ==
  /\ z.x <= x /\ x < z.x + z.width
  /\ z.y <= y /\ y < z.y + z.height

\* --------------------------------------------------------------- the state
VARIABLES
  width, height, wrap,          \* Grid.width, Grid.height, Grid.wrap
  cells,                        \* Grid.cells: site -> cell reference, 0 is None
  cellobj,                      \* the Cell objects, by reference
  species,                      \* the Species objects, by reference
  next_id,                      \* Species._next_id
  species_by_id,                \* SpeciesRegistry.species_by_id: id -> reference
  extinct_species,              \* SpeciesRegistry.extinct_species
  zones, default_zone,          \* ZoneManager.zones, ZoneManager.default_zone
  zm_generation, shift_enabled, shift_interval,   \* ZoneManager fields
  zone_cache, zone_pressure_cache, zone_cache_generation,
  neighbor_cache, neighbor_cache_generation,
  generation, births_this_gen, deaths_this_gen, mutations_this_gen,
  pc,                           \* position inside Grid.step(), "idle" outside
  migration_pressure,           \* local of step()
  mobile_cells,                 \* local of process_movement, the part not yet visited
  predation_events,             \* local of process_predation
  scan,                         \* number of sites already visited by the running scan
  birth_queue, death_queue,     \* locals of process_reproduction
  pending,                      \* the caller's Species object not yet seeded, 0 if none
  script,                       \* the set-up calls the caller has still to make
  last_call, ret,               \* the last call that returned; what step() returned last
  stats,                        \* what get_stats() returned last: { } or { the dict }
  stdout,                       \* the lines seed_species has printed
  entry                         \* history: the grid and the species as the running (or last) step() found them

vars ==
  << width, height, wrap, cells, cellobj, species, next_id, species_by_id,
     extinct_species, zones, default_zone, zm_generation, shift_enabled,
     shift_interval, zone_cache, zone_pressure_cache, zone_cache_generation,
     neighbor_cache, neighbor_cache_generation, generation, births_this_gen,
     deaths_this_gen, mutations_this_gen, pc, migration_pressure, mobile_cells,
     predation_events, scan, birth_queue, death_queue, pending, script,
     last_call, ret, stats, stdout, entry >>

gridVars == << width, height, wrap >>
registryVars == << species, next_id, species_by_id, extinct_species >>
zoneVars == << zones, default_zone, zm_generation, shift_enabled, shift_interval >>
zoneCacheVars == << zone_cache, zone_pressure_cache, zone_cache_generation >>
neighborCacheVars == << neighbor_cache, neighbor_cache_generation >>
counterVars == << births_this_gen, deaths_this_gen, mutations_this_gen >>
localVars == << migration_pressure, mobile_cells, predation_events, scan,
                birth_queue, death_queue >>
callerVars == << pending, script, stdout >>

None == 0

\* ------------------------------------------------------------ the geometry
Sites == (0 .. width - 1) \X (0 .. height - 1)

\* the row-major order of "for y in range(height): for x in range(width)"
SiteAt(i) == << (i - 1) % width, (i - 1) \div width >>
NumSites == width * height

\* Grid.get_neighbors: the list of neighbour coordinates, duplicates kept
get_neighbors(x, y, radius) ==
  LET side == 2 * radius + 1
      raw == [ i \in 1 .. side * side |->
                 LET dx == ((i - 1) % side) - radius
                     dy == ((i - 1) \div side) - radius
                     nx == x + dx
                     ny == y + dy
                 IN IF dx = 0 /\ dy = 0 THEN << -1, -1 >>
                    ELSE IF wrap THEN << nx % width, ny % height >>
                    ELSE IF 0 <= nx /\ nx < width /\ 0 <= ny /\ ny < height
                         THEN << nx, ny >>
                         ELSE << -1, -1 >> ]
  IN SelectSeq(raw, LAMBDA p : p[1] >= 0)

\* "cell and cell.is_alive" for the cell stored at a site
LiveAt(grid, objs, s) == grid[s] # None /\ objs[grid[s]].is_alive

\* the number of entries of a list of sites that hold a living cell
CountLive(grid, objs, sites) ==
  Len(SelectSeq(sites, LAMBDA s : LiveAt(grid, objs, s)))

\* a neighbour count that never wraps around the edges
count_all_neighbors_clipped(grid, objs) ==
  [ s \in Sites |->
      Cardinality({ d \in (-1 .. 1) \X (-1 .. 1) :
        /\ d # << 0, 0 >>
        /\ LET nx == s[1] + d[1]
               ny == s[2] + d[2]
           IN /\ ~(nx < 0 \/ nx >= width \/ ny < 0 \/ ny >= height)
              /\ LiveAt(grid, objs, << nx, ny >>) }) ]

\* count_all_neighbors (grid_numba.py) on the alive grid of _build_neighbor_cache:
\* for every site, the number of offsets (dx, dy) whose site is alive
count_all_neighbors(grid, objs) ==
  [ s \in Sites |->
      Cardinality({ d \in (-1 .. 1) \X (-1 .. 1) :
        /\ d # << 0, 0 >>
        /\ LET nx == s[1] + d[1]
               ny == s[2] + d[2]
           IN IF wrap
              THEN LiveAt(grid, objs, << nx % width, ny % height >>)
              ELSE /\ ~(nx < 0 \/ nx >= width \/ ny < 0 \/ ny >= height)
                   /\ LiveAt(grid, objs, << nx, ny >>) }) ]

\* ---------------------------------------------------- zone lookup, pressure
\* zone references: 0 is the default zone, i > 0 is zones[i]
ZoneObj(zs, dz, i) == IF i = 0 THEN dz ELSE zs[i]

\* a lookup that finds the default zone everywhere
get_zone_at_default(zs, x, y) == 0

\* ZoneManager.get_zone_at: the last added zone containing the site
get_zone_at(zs, x, y) ==
  LET hits == { i \in 1 .. Len(zs) : contains(zs[i], x, y) }
  IN IF hits = {} THEN 0 ELSE CHOOSE i \in hits : \A j \in hits : j <= i

\* Zone.get_cell_count
get_cell_count(z, grid, objs) ==
  IF ~z.grid THEN 0
  ELSE Cardinality({ s \in Sites :
         /\ z.x <= s[1] /\ s[1] < z.x + z.width
         /\ z.y <= s[2] /\ s[2] < z.y + z.height
         /\ LiveAt(grid, objs, s) })

\* a pressure that falls from 1.3 at half the capacity to 1.0 at the capacity
get_population_pressure_from_half(z, grid, objs) ==
  LET capacity == z.properties.carrying_capacity
      current_pop == get_cell_count(z, grid, objs)
  IN IF capacity = 0 THEN << 0, 1 >>
     ELSE IF 2 * current_pop < capacity THEN << 13, 10 >>
     ELSE IF current_pop < capacity
          THEN RNorm(<< 16 * capacity - 6 * current_pop, 10 * capacity >>)
     ELSE IF 10 * current_pop < 13 * capacity
          THEN RNorm(<< 2 * capacity - current_pop, capacity >>)
     ELSE << 3, 5 >>

\* Zone.get_population_pressure, as an exact rational
get_population_pressure(z, grid, objs) ==
  LET capacity == z.properties.carrying_capacity
      current_pop == get_cell_count(z, grid, objs)
  IN IF capacity = 0 THEN << 0, 1 >>
     ELSE IF 2 * current_pop < capacity THEN << 13, 10 >>
     ELSE IF current_pop < capacity
          THEN RNorm(<< 13 * capacity - 3 * current_pop, 10 * capacity >>)
     ELSE IF 10 * current_pop < 13 * capacity
          THEN RNorm(<< 2 * capacity - current_pop, capacity >>)
     ELSE << 3, 5 >>

\* Grid._get_cached_zone / Grid._get_cached_pressure
_get_cached_zone(zc, x, y) == IF << x, y >> \in DOMAIN zc THEN zc[<< x, y >>] ELSE 0
_get_cached_pressure(pcache, zi) == IF zi \in DOMAIN pcache THEN pcache[zi] ELSE << 1, 1 >>

\* SpeciesRegistry.get: the registered object, None if the id is not a key
RegGet(byid, id) == IF id \in DOMAIN byid THEN byid[id] ELSE None

\* ------------------------------------------------------------- the callers
\* The code that sets a simulation up (main_enhanced.py, the test scripts):
\* Grid(width, height, wrap), then a script of zone_manager.add_zone,
\* setup_zones, enable_shifting, seed_species and step calls.  After the script
\* the caller keeps calling step() and get_stats().
NoCall ==
  [ op |-> "none", zone |-> NewZone(0, 0, 0, 0, ZoneProps("neutral")), layout |-> "neutral",
    interval |-> 0, traits |-> DefaultTraits, population |-> 0, draws |-> << >> ]
CallSeed(tr, n, sites) ==
  [ NoCall EXCEPT !.op = "seed", !.traits = tr, !.population = n, !.draws = sites ]
CallAddZone(x, y, w, h, props) ==
  [ NoCall EXCEPT !.op = "add_zone", !.zone = NewZone(x, y, w, h, props) ]
CallSetupZones(layout) == [ NoCall EXCEPT !.op = "setup_zones", !.layout = layout ]
CallEnableShifting(n) == [ NoCall EXCEPT !.op = "enable_shifting", !.interval = n ]
CallStep == [ NoCall EXCEPT !.op = "step" ]

\* the trait records the callers construct species from
Settler == [ DefaultTraits EXCEPT !.base_energy = 65, !.energy_from_birth = 6 ]
Spender == [ DefaultTraits EXCEPT !.base_energy = 11, !.photosynthesis_rate = 2,
                                  !.reproduction_threshold = 10, !.mutation_rate = 0 ]
Tiny == [ DefaultTraits EXCEPT !.base_energy = 2, !.reproduction_threshold = 4,
                               !.energy_from_birth = 4, !.starvation_threshold = 0,
                               !.mutation_rate = 0 ]
Faster == [ DefaultTraits EXCEPT !.complexity = 2, !.base_energy = 6, !.energy_decay = 1,
                                 !.photosynthesis_rate = 0, !.reproduction_threshold = 5,
                                 !.energy_from_birth = 5, !.starvation_threshold = 0,
                                 !.max_lifespan = 0, !.mutation_rate = 0 ]
Hunter == [ DefaultTraits EXCEPT !.complexity = 3, !.energy_source = "predation",
                                 !.can_be_consumed = FALSE, !.mutation_rate = 0 ]
Game == [ DefaultTraits EXCEPT !.complexity = 4, !.energy_source = "hybrid",
                               !.base_energy = 40, !.mutation_rate = 0 ]
Moss == [ DefaultTraits EXCEPT !.base_energy = 65, !.energy_from_birth = 6,
                               !.mutation_rate = 0 ]
Roamer == [ DefaultTraits EXCEPT !.mutation_rate = 0 ]
Elder == [ DefaultTraits EXCEPT !.max_lifespan = 1, !.mutation_rate = 0 ]

Corner == << << 0, 0 >>, << 1, 0 >>, << 0, 1 >> >>

ScSettlers == [ shape |-> << 3, 3, FALSE >>, script |-> << CallSeed(Settler, 3, Corner) >> ]
ScSpenders == [ shape |-> << 2, 2, FALSE >>, script |-> << CallSeed(Spender, 3, Corner) >> ]
ScTiny == [ shape |-> << 2, 2, FALSE >>, script |-> << CallSeed(Tiny, 3, Corner) >> ]
ScFasters == [ shape |-> << 2, 2, FALSE >>, script |-> << CallSeed(Faster, 3, Corner) >> ]
ScHunt ==
  [ shape |-> << 2, 2, FALSE >>,
    script |-> << CallSetupZones("neutral"),
                  CallSeed(Hunter, 1, << << 0, 0 >> >>),
                  CallSeed(Game, 1, << << 1, 0 >> >>),
                  CallSeed(Moss, 1, << << 0, 1 >> >>) >> ]
ScVoid ==
  [ shape |-> << 3, 3, FALSE >>,
    script |-> << CallAddZone(0, 0, 3, 1, ZoneProps("void")), CallSetupZones("neutral"),
                  CallSeed(Moss, 3, << << 0, 0 >>, << 0, 1 >>, << 1, 1 >>, << 2, 1 >> >>) >> ]
ScRoam ==
  [ shape |-> << 4, 3, TRUE >>,
    script |-> << CallAddZone(0, 0, 4, 1, ZoneProps("void")),
                  CallSeed(Roamer, 1, << << 1, 1 >> >>) >> ]
ScElder ==
  [ shape |-> << 3, 3, FALSE >>,
    script |-> << CallSeed(Elder, 1, << << 2, 2 >> >>), CallSeed(Settler, 3, Corner) >> ]
ScShift ==
  [ shape |-> << 3, 3, TRUE >>,
    script |-> << CallAddZone(0, 0, 2, 2, ZoneProps("desert")), CallEnableShifting(1),
                  CallSeed(Settler, 1, << << 1, 1 >> >>), CallStep,
                  CallSeed(Elder, 2, << << 1, 1 >>, << 0, 0 >>, << 2, 2 >> >>) >> ]
ScQuadrants ==
  [ shape |-> << 2, 2, FALSE >>,
    script |-> << CallSetupZones("quadrant"), CallSeed(Moss, 3, Corner) >> ]

\* the caller makes no further call
CallReturn == NoCall

\* the predator-collapse scenario on a small grid: two cells of the predator
\* species beside one cell of a prey species whose cells live a single tick
ScCollapse ==
  [ shape |-> << 3, 2, FALSE >>,
    script |-> << CallSeed(Hunter, 2, << << 0, 0 >>, << 1, 0 >> >>),
                  CallSeed(Elder, 1, << << 0, 1 >> >>),
                  CallStep, CallStep, CallReturn >> ]

\* the dominant-species-continuity scenario on a small grid: one species with
\* a nonzero mutation_rate and the smallest native_zone_affinity of the range,
\* two cells at the ends of a row of three sites, one step
Marginal == [ Settler EXCEPT !.native_zone_affinity = 100 ]
ScContinuity ==
  [ shape |-> << 3, 1, FALSE >>,
    script |-> << CallSeed(Marginal, 2, << << 0, 0 >>, << 2, 0 >> >>),
                  CallStep, CallReturn >> ]

\* invalid configurations: a grid of width 0, and a seeding with a negative
\* population followed by a regular one and by one that asks for more cells
\* than sites are free
ScFlat == [ shape |-> << 0, 2, FALSE >>, script |-> << >> ]
ScNegative ==
  [ shape |-> << 2, 2, FALSE >>,
    script |-> << CallSeed(Roamer, -1, << << 0, 0 >> >>),
                  CallSeed(Roamer, 2, << << 0, 0 >>, << 1, 0 >> >>),
                  CallSeed(Roamer, 3, << << 0, 0 >>, << 0, 1 >>, << 1, 0 >>, << 1, 1 >> >>),
                  CallReturn >> ]

\* a trait record whose every ranged trait is passed out of its range
Wild == [ DefaultTraits EXCEPT !.base_energy = 500, !.energy_decay = 0,
                               !.photosynthesis_rate = 50, !.hunting_efficiency = 90,
                               !.colonial_affinity = 300, !.cluster_reproduction_bonus = 50,
                               !.mutation_rate = 2000, !.complexity = 9,
                               !.metabolic_efficiency = 10, !.heat_tolerance = -10,
                               !.cold_tolerance = 150, !.toxin_resistance = 200,
                               !.max_lifespan = 5000, !.age_decline_start = 150,
                               !.native_zone_affinity = 300, !.movement_cost = 7 ]
ScWild ==
  [ shape |-> << 2, 2, FALSE >>,
    script |-> << CallSeed(Wild, 1, << << 0, 0 >> >>), CallReturn >> ]

\* a species that needs two parents beside one that does not, on a row of
\* five sites: the site between the two cells of the first species, and the
\* site between one of them and the cell of the second, can receive a birth
Mated == [ Roamer EXCEPT !.sexual_reproduction = TRUE ]
ScCourtship ==
  [ shape |-> << 5, 1, FALSE >>,
    script |-> << CallSeed(Mated, 2, << << 0, 0 >>, << 2, 0 >> >>),
                  CallSeed(Roamer, 1, << << 4, 0 >> >>),
                  CallStep, CallReturn >> ]

\* a strip with a fertile site, a desert site and two neutral sites; one cell
\* starts on the desert site and one on the far neutral site
ScSeek ==
  [ shape |-> << 4, 1, FALSE >>,
    script |-> << CallAddZone(0, 0, 1, 1, ZoneProps("fertile")),
                  CallAddZone(1, 0, 1, 1, ZoneProps("desert")),
                  CallSeed(Roamer, 2, << << 1, 0 >>, << 3, 0 >> >>),
                  CallStep, CallReturn >> ]

\* ZoneProperties(name="Test", carrying_capacity=c), as the carrying-capacity
\* test constructs it
TestProps(c) == [ ZoneProps("neutral") EXCEPT !.tag = "test", !.carrying_capacity = c ]

\* five cells under zones of small capacities: four over the whole grid, one
\* over its left 2x2 block, and one added after setup_zones
ScCrowd ==
  [ shape |-> << 3, 2, FALSE >>,
    script |-> << CallAddZone(0, 0, 3, 2, TestProps(0)),
                  CallAddZone(0, 0, 3, 2, TestProps(2)),
                  CallAddZone(0, 0, 3, 2, TestProps(4)),
                  CallAddZone(0, 0, 3, 2, TestProps(6)),
                  CallAddZone(0, 0, 2, 2, TestProps(4)),
                  CallSetupZones("neutral"),
                  CallAddZone(0, 0, 3, 2, TestProps(2)),
                  CallSeed(Moss, 5, << << 0, 0 >>, << 1, 0 >>, << 2, 0 >>,
                                       << 0, 1 >>, << 2, 1 >> >>),
                  CallStep, CallStep, CallReturn >> ]

\* an immortal species with the least photosynthesis above zero, and two of
\* its cells with an empty site between them
Ageless == [ Settler EXCEPT !.max_lifespan = 0, !.photosynthesis_rate = 1 ]
ScAgeless ==
  [ shape |-> << 3, 1, FALSE >>,
    script |-> << CallSeed(Ageless, 2, << << 0, 0 >>, << 2, 0 >> >>),
                  CallStep, CallReturn >> ]

\* the still-life scenario on a small grid: the 2x2 block with one column of
\* free sites beside it, and one step
Still == [ DefaultTraits EXCEPT !.photosynthesis_rate = 0, !.energy_decay = 0,
                                !.max_lifespan = 0, !.mutation_rate = 0 ]
Block == << << 0, 0 >>, << 1, 0 >>, << 0, 1 >>, << 1, 1 >> >>
ScStill ==
  [ shape |-> << 3, 2, FALSE >>,
    script |-> << CallSeed(Still, 4, Block), CallStep, CallReturn >> ]

\* the starvation-sweep scenario: every site of the 5x5 grid seeded, three steps
Sweep == [ DefaultTraits EXCEPT !.photosynthesis_rate = 0, !.energy_decay = 5,
                                !.max_lifespan = 0, !.base_energy = 10 ]
SweepSide == 4
ScSweep ==
  [ shape |-> << SweepSide, SweepSide, TRUE >>,
    script |-> << CallSeed(Sweep, SweepSide * SweepSide,
                           [ i \in 1 .. SweepSide * SweepSide |->
                               << (i - 1) % SweepSide, (i - 1) \div SweepSide >> ]),
                  CallStep, CallStep, CallStep >> ]

\* step() shifts the zones when generation % 50 == 0
ShiftPeriod == 50

\* the rows the VOID zone of the displacement scenario covers
VoidRows == 1

\* the zone-displacement scenario on a small grid: a VOID zone over the top
\* row, four cells seeded below it (the first draw falls into the zone), and
\* the steps up to the first zone shift
ScDisplace ==
  [ shape |-> << 2, 3, FALSE >>,
    script |-> << CallAddZone(0, 0, 2, VoidRows, ZoneProps("void")),
                  CallSeed(Moss, 4, << << 0, 0 >>, << 0, 1 >>, << 1, 1 >>,
                                       << 0, 2 >>, << 1, 2 >> >>) >>
               \o [ i \in 1 .. ShiftPeriod |-> CallStep ] ]

Scenarios ==
  { ScSettlers, ScSpenders, ScTiny, ScFasters, ScHunt, ScVoid, ScRoam, ScElder, ScShift,
    ScQuadrants, ScDisplace, ScStill, ScSweep,
    ScCollapse, ScContinuity, ScFlat, ScNegative,
    ScWild, ScCourtship, ScSeek, ScCrowd, ScAgeless }

\* ----------------------------------------------------------- construction
\* Cell.__init__
NewCell(x, y, sp, energy) ==
  [ x |-> x, y |-> y, species_id |-> sp.id, is_alive |-> TRUE, age |-> 0,
    energy |-> energy, max_energy |-> sp.traits.base_energy * 2,
    has_moved_this_gen |-> FALSE ]

\* Grid.__init__ (with SpeciesRegistry.__init__ and ZoneManager.__init__)
Init ==
  /\ \E sc \in Scenarios :
       /\ width = sc.shape[1]
       /\ height = sc.shape[2]
       /\ wrap = sc.shape[3]
       /\ cells = [ s \in (0 .. sc.shape[1] - 1) \X (0 .. sc.shape[2] - 1) |-> None ]
       /\ default_zone = NewZone(0, 0, sc.shape[1], sc.shape[2], ZoneProps("neutral"))
       /\ script = sc.script
  /\ cellobj = << >>
  /\ species = << >>
  /\ next_id = 1
  /\ species_by_id = << >>
  /\ extinct_species = << >>
  /\ zones = << >>
  /\ zm_generation = 0
  /\ shift_enabled = FALSE
  /\ shift_interval = 100
  /\ zone_cache = << >>
  /\ zone_pressure_cache = << >>
  /\ zone_cache_generation = -1
  /\ neighbor_cache = << >>
  /\ neighbor_cache_generation = -1
  /\ generation = 0
  /\ births_this_gen = 0
  /\ deaths_this_gen = 0
  /\ mutations_this_gen = 0
  /\ pc = "idle"
  /\ migration_pressure = 0
  /\ mobile_cells = << >>
  /\ predation_events = << >>
  /\ scan = 0
  /\ birth_queue = << >>
  /\ death_queue = << >>
  /\ pending = None
  /\ last_call = "init"
  /\ ret = None
  /\ stats = { }
  /\ stdout = << >>
  /\ entry = [ cells |-> cells, cellobj |-> cellobj, species |-> species ]

\* ------------------------------------------------------------- the callers
\* Species(name, traits) called by the code that sets a simulation up
CreateSpecies ==
  /\ pc = "idle"
  /\ pending = None
  /\ script # << >> /\ Head(script).op = "seed"
  /\ species' = Append(species, NewSpecies(next_id, PostInit(Head(script).traits), None, 0))
  /\ next_id' = AdvanceId(next_id)
  /\ pending' = Len(species) + 1
  /\ UNCHANGED << gridVars, stats, entry, cells, cellobj, species_by_id, extinct_species, zoneVars,
                  zoneCacheVars, neighborCacheVars, generation, counterVars, pc,
                  localVars, script, stdout, last_call, ret >>

\* zone_counts[tag] = zone_counts.get(tag, 0) + 1 on an insertion-ordered dict
CountTag(counts, tag) ==
  IF \E i \in 1 .. Len(counts) : counts[i][1] = tag
  THEN [ i \in 1 .. Len(counts) |->
           IF counts[i][1] = tag THEN << tag, counts[i][2] + 1 >> ELSE counts[i] ]
  ELSE Append(counts, << tag, 1 >>)

\* max(zone_counts, key=zone_counts.get): the first key with the largest count
MostCommon(counts) ==
  LET best == CHOOSE i \in 1 .. Len(counts) :
                /\ \A j \in 1 .. Len(counts) : counts[j][2] <= counts[i][2]
                /\ \A j \in 1 .. i - 1 : counts[j][2] < counts[i][2]
  IN counts[best][1]

\* the while loop of the "random" pattern; draws are the sites the RNG yields,
\* once they are used up the RNG repeats sites already tried, where no cell
\* can be placed, until the attempts are used up
RECURSIVE SeedRandom(_, _, _, _)
SeedRandom(draws, population, sp, st) ==
  IF ~(st.placed < population /\ st.attempts < population * 100)
  THEN st
  ELSE IF draws = << >>
  THEN [ st EXCEPT !.attempts = population * 100 ]
  ELSE LET s == Head(draws)
           zi == get_zone_at(zones, s[1], s[2])
           z == ZoneObj(zones, default_zone, zi)
           ok == st.cells[s] = None /\ z.properties.can_enter
           st2 == IF ok
                  THEN [ st EXCEPT
                           !.objs = Append(st.objs, NewCell(s[1], s[2], sp, sp.traits.base_energy)),
                           !.cells = [ st.cells EXCEPT ![s] = Len(st.objs) + 1 ],
                           !.placed = st.placed + 1,
                           !.counts = CountTag(st.counts, z.properties.tag) ]
                  ELSE st
       IN SeedRandom(Tail(draws), population, sp, [ st2 EXCEPT !.attempts = st.attempts + 1 ])

\* zone_counts[most_common_zone]
CountOf(counts, tag) ==
  LET i == CHOOSE i \in 1 .. Len(counts) : counts[i][1] = tag IN counts[i][2]

\* the lines seed_species prints: the zone the species is established in, if
\* a cell was placed, and the number of cells placed
SeedLines(sp, st) ==
  ( IF st.counts # << >>
    THEN << << "established", sp.id, MostCommon(st.counts),
               CountOf(st.counts, MostCommon(st.counts)), st.placed >> >>
    ELSE << >> )
  \o << << "Seeded", st.placed, sp.id >> >>

\* a seeding that prints nothing
SeedSpeciesQuiet ==
  /\ pc = "idle"
  /\ pending # None
  /\ LET inp == Head(script)
         sp == species[pending]
         st == SeedRandom(inp.draws, inp.population, sp,
                          [ cells |-> cells, objs |-> cellobj, placed |-> 0,
                            attempts |-> 0, counts |-> << >> ])
     IN /\ species_by_id' = (sp.id :> pending) @@ species_by_id
        /\ cells' = st.cells
        /\ cellobj' = st.objs
        /\ species' = IF st.counts # << >>
                      THEN [ species EXCEPT ![pending].traits.native_zone_type =
                                             MostCommon(st.counts) ]
                      ELSE species
        /\ stdout' = stdout
  /\ pending' = None
  /\ script' = Tail(script)
  /\ last_call' = "seed_species"
  /\ ret' = None
  /\ UNCHANGED << gridVars, stats, entry, next_id, extinct_species, zoneVars, zoneCacheVars,
                  neighborCacheVars, generation, counterVars, pc, localVars >>

\* Grid.seed_species(species, population, "random")
SeedSpecies ==
  /\ pc = "idle"
  /\ pending # None
  /\ LET inp == Head(script)
         sp == species[pending]
         st == SeedRandom(inp.draws, inp.population, sp,
                          [ cells |-> cells, objs |-> cellobj, placed |-> 0,
                            attempts |-> 0, counts |-> << >> ])
     IN /\ species_by_id' = (sp.id :> pending) @@ species_by_id
        /\ cells' = st.cells
        /\ cellobj' = st.objs
        /\ species' = IF st.counts # << >>
                      THEN [ species EXCEPT ![pending].traits.native_zone_type =
                                             MostCommon(st.counts) ]
                      ELSE species
        /\ stdout' = stdout \o SeedLines(sp, st)
  /\ pending' = None
  /\ script' = Tail(script)
  /\ last_call' = "seed_species"
  /\ ret' = None
  /\ UNCHANGED << gridVars, stats, entry, next_id, extinct_species, zoneVars, zoneCacheVars,
                  neighborCacheVars, generation, counterVars, pc, localVars >>


\* ZoneManager.add_zone(Zone(...)); Zone.__init__ leaves zone.grid unset
AddZone ==
  /\ pc = "idle"
  /\ pending = None
  /\ script # << >> /\ Head(script).op = "add_zone"
  /\ zones' = Append(zones, Head(script).zone)
  /\ script' = Tail(script)
  /\ last_call' = "add_zone"
  /\ ret' = None
  /\ UNCHANGED << gridVars, stats, entry, cells, cellobj, registryVars, default_zone, zm_generation,
                  shift_enabled, shift_interval, zoneCacheVars, neighborCacheVars,
                  generation, counterVars, pc, localVars, pending, stdout >>

\* ZoneManager.create_quadrant_zones
create_quadrant_zones ==
  LET hw == width \div 2
      hh == height \div 2
  IN << NewZone(0, 0, hw, hh, ZoneProps("fertile")),
        NewZone(hw, 0, hw, hh, ZoneProps("desert")),
        NewZone(0, hh, hw, hh, ZoneProps("toxic")),
        NewZone(hw, hh, hw, hh, ZoneProps("paradise")) >>

\* Grid.setup_zones for the layouts "neutral" and "quadrant"
SetupZones ==
  /\ pc = "idle"
  /\ pending = None
  /\ script # << >> /\ Head(script).op = "setup_zones"
  /\ LET all == zones \o (IF Head(script).layout = "quadrant"
                           THEN create_quadrant_zones ELSE << >>)
     IN zones' = [ i \in 1 .. Len(all) |-> [ all[i] EXCEPT !.grid = TRUE ] ]
  /\ script' = Tail(script)
  /\ default_zone' = [ default_zone EXCEPT !.grid = TRUE ]
  /\ last_call' = "setup_zones"
  /\ ret' = None
  /\ UNCHANGED << gridVars, stats, entry, cells, cellobj, registryVars, zm_generation, shift_enabled,
                  shift_interval, zoneCacheVars, neighborCacheVars, generation,
                  counterVars, pc, localVars, pending, stdout >>

\* ZoneManager.enable_shifting(interval)
EnableShifting ==
  /\ pc = "idle"
  /\ pending = None
  /\ script # << >> /\ Head(script).op = "enable_shifting"
  /\ shift_enabled' = TRUE
  /\ shift_interval' = Head(script).interval
  /\ script' = Tail(script)
  /\ last_call' = "enable_shifting"
  /\ ret' = None
  /\ UNCHANGED << gridVars, stats, entry, cells, cellobj, registryVars, zones, default_zone,
                  zm_generation, zoneCacheVars, neighborCacheVars, generation,
                  counterVars, pc, localVars, pending, stdout >>

\* the living cells of the grid
LivingSites(grid, objs) == { s \in Sites : LiveAt(grid, objs, s) }

\* Grid.get_stats (with SpeciesRegistry.get_stats); the species-age average and
\* the dominant species object are not part of the modelled result
GetStats ==
  /\ pc = "idle"
  /\ pending = None
  /\ script = << >>
  /\ last_call # "get_stats"
  /\ stats' = { [ generation |-> generation,
                   population |-> Cardinality(LivingSites(cells, cellobj)),
                   species_count |-> Cardinality(DOMAIN species_by_id),
                   births |-> births_this_gen,
                   deaths |-> deaths_this_gen,
                   mutations |-> mutations_this_gen ] }
  /\ last_call' = "get_stats"
  /\ UNCHANGED << gridVars, ret, entry, cells, cellobj, registryVars, zoneVars, zoneCacheVars,
                  neighborCacheVars, generation, counterVars, pc, localVars, callerVars >>

\* ------------------------------------------------------------- zone shifts
\* one zone's draws in ZoneManager.shift_zones
NoShift ==
  [ new_type |-> "keep", move |-> FALSE, dx |-> 0, dy |-> 0,
    resize |-> FALSE, dw |-> 0, dh |-> 0 ]
ShiftDraws ==
  { NoShift,
    [ NoShift EXCEPT !.new_type = "desert", !.move = TRUE, !.dx = 1, !.dy = -1 ],
    [ NoShift EXCEPT !.resize = TRUE, !.dw = -8, !.dh = 8 ] }

ShiftOne(z, d) ==
  LET p == IF d.new_type = "keep" THEN z.properties ELSE ZoneProps(d.new_type)
      nx == IF d.move THEN Max2(0, Min2(width - z.width, z.x + d.dx)) ELSE z.x
      ny == IF d.move THEN Max2(0, Min2(height - z.height, z.y + d.dy)) ELSE z.y
      nw == IF d.resize THEN Max2(15, Min2(80, z.width + d.dw)) ELSE z.width
      nh == IF d.resize THEN Max2(15, Min2(80, z.height + d.dh)) ELSE z.height
  IN [ z EXCEPT !.properties = p, !.x = nx, !.y = ny, !.width = nw, !.height = nh ]

\* ZoneManager.shift_zones with the draws ds[i] for zone i
shift_zones(zs, ds) == [ i \in 1 .. Len(zs) |-> ShiftOne(zs[i], ds[i]) ]

ShiftChoices(zs, due) ==
  IF due /\ zs # << >> THEN [ 1 .. Len(zs) -> ShiftDraws ] ELSE { << >> }

\* --------------------------------------------------------------- Grid.step
\* a step that counts the tick twice
NextGenerationTwice(g) == g + 2

\* self.generation += 1
NextGeneration(g) == g + 1

\* step() up to the call of process_aging
StepBegin ==
  /\ pc = "idle"
  /\ pending = None
  /\ IF script = << >> THEN generation < MaxGen ELSE Head(script).op = "step"
  /\ script' = IF script = << >> THEN script ELSE Tail(script)
  /\ generation' = NextGeneration(generation)
  /\ migration_pressure' = IF generation' % 150 = 0 THEN 3 ELSE 0
  /\ births_this_gen' = 0
  /\ deaths_this_gen' = 0
  /\ mutations_this_gen' = 0
  /\ zm_generation' = zm_generation + 1
  /\ \E d1 \in ShiftChoices(zones, generation' % ShiftPeriod = 0) :
       LET z1 == IF d1 = << >> THEN zones ELSE shift_zones(zones, d1)
       IN \E d2 \in ShiftChoices(z1, shift_enabled /\ zm_generation' % shift_interval = 0) :
            zones' = IF d2 = << >> THEN z1 ELSE shift_zones(z1, d2)
  /\ pc' = "aging"
  /\ ret' = None
  /\ last_call' = "step"
  /\ entry' = [ cells |-> cells, cellobj |-> cellobj, species |-> species ]
  /\ UNCHANGED << gridVars, stats, cells, cellobj, registryVars, default_zone, shift_enabled,
                  shift_interval, zoneCacheVars, neighborCacheVars, mobile_cells,
                  predation_events, scan, birth_queue, death_queue, pending, stdout >>


\* Grid._build_zone_caches: nothing to do when built in this generation
BuildZoneCache(grid, objs) ==
  IF zone_cache_generation = generation
  THEN << zone_cache, zone_pressure_cache >>
  ELSE << [ s \in Sites |-> get_zone_at(zones, s[1], s[2]) ],
          [ zi \in 0 .. Len(zones) |->
              get_population_pressure(ZoneObj(zones, default_zone, zi), grid, objs) ] >>

\* ------------------------------------------------------- phase 1: aging
\* Grid._has_prey_nearby
_has_prey_nearby(x, y, sp, grid, objs, specs, byid) ==
  IF sp.traits.energy_source = "photosynthesis" THEN FALSE
  ELSE LET nb == get_neighbors(x, y, 1)
       IN \E i \in 1 .. Len(nb) :
            /\ LiveAt(grid, objs, nb[i])
            /\ LET n == objs[grid[nb[i]]]
                   nsp == RegGet(byid, n.species_id)
               IN /\ nsp # None
                  /\ specs[nsp].traits.can_be_consumed
                  /\ n.species_id # sp.id

\* Grid._has_predators_nearby
_has_predators_nearby(x, y, grid, objs, specs, byid) ==
  LET nb == get_neighbors(x, y, 1)
  IN \E i \in 1 .. Len(nb) :
       /\ LiveAt(grid, objs, nb[i])
       /\ LET nsp == RegGet(byid, objs[grid[nb[i]]].species_id)
          IN nsp # None /\ can_hunt(specs[nsp].traits)

\* a colony bonus of 2 whatever the neighbours are
_get_colony_bonus_double(x, y, species_id, sp, grid, objs) == << 2, 1 >>

\* Grid._get_colony_bonus
_get_colony_bonus(x, y, species_id, sp, grid, objs) ==
  LET nb == get_neighbors(x, y, 1)
      live == SelectSeq(nb, LAMBDA s : LiveAt(grid, objs, s))
      total_neighbors == Len(live)
      same_species_count ==
        Len(SelectSeq(live, LAMBDA s : objs[grid[s]].species_id = species_id))
  IN IF total_neighbors = 0 THEN << 1, 1 >>
     ELSE RNorm(<< total_neighbors * 100
                     + same_species_count * (sp.traits.colonial_affinity - 100),
                   total_neighbors * 100 >>)

\* the aging penalty of Cell.age_one_generation at the given age
AgingPenalty(t, age) ==
  IF t.max_lifespan > 0 /\ age * 100 > t.age_decline_start * t.max_lifespan
  THEN LET den == 2 * t.max_lifespan * (100 - t.age_decline_start)
       IN RNorm(<< den + (age * 100 - t.age_decline_start * t.max_lifespan), den >>)
  ELSE << 1, 1 >>

\* a starvation check that lets a cell with exactly no energy live
StarvedBelowZero(t, zone_type, energy) ==
  \/ ~is_optimal_zone(t, zone_type) /\ energy < t.starvation_threshold
  \/ energy < 0

\* the two starvation checks at the end of Cell.age_one_generation
Starved(t, zone_type, energy) ==
  \/ ~is_optimal_zone(t, zone_type) /\ energy < t.starvation_threshold
  \/ energy <= 0

\* an aging that lets a cell live through the tick in which it reaches max_lifespan
age_one_generation_late(c, t, zone_modifier, zone_type, has_prey_nearby, population_pressure) ==
  LET age1 == c.age + 1
      adaptation_mult == get_adaptation_bonus(t, zone_type)
      decay == RFloor(RDiv(RMul(RMul(RMul(RInt(t.energy_decay), zone_modifier),
                                     get_complexity_cost(t)),
                                AgingPenalty(t, age1)),
                           adaptation_mult))
      e1 == Max2(0, c.energy - decay)
      food_mult == get_energy_source_multiplier(t, has_prey_nearby)
      zone_bonus == IF is_optimal_zone(t, zone_type)
                    THEN RNorm(<< t.optimal_zone_bonus, 100 >>) ELSE << 1, 1 >>
      gain == RFloor(RDiv(RMul(RMul(RMul(RMul(RMul(RInt(t.photosynthesis_rate),
                                                   zone_modifier),
                                              adaptation_mult),
                                         food_mult),
                                    zone_bonus),
                               population_pressure),
                          RNorm(<< t.metabolic_efficiency, 100 >>)))
      e2 == Min2(c.max_energy, e1 + gain)
  IN IF t.max_lifespan > 0 /\ age1 > t.max_lifespan
     THEN [ c EXCEPT !.age = age1, !.is_alive = FALSE ]
     ELSE IF Starved(t, zone_type, e2)
     THEN [ c EXCEPT !.age = age1, !.energy = e2, !.is_alive = FALSE ]
     ELSE [ c EXCEPT !.age = age1, !.energy = e2 ]

\* Cell.age_one_generation: the cell afterwards (is_alive is the return value)
age_one_generation(c, t, zone_modifier, zone_type, has_prey_nearby, population_pressure) ==
  LET age1 == c.age + 1
      adaptation_mult == get_adaptation_bonus(t, zone_type)
      decay == RFloor(RDiv(RMul(RMul(RMul(RInt(t.energy_decay), zone_modifier),
                                     get_complexity_cost(t)),
                                AgingPenalty(t, age1)),
                           adaptation_mult))
      e1 == Max2(0, c.energy - decay)
      food_mult == get_energy_source_multiplier(t, has_prey_nearby)
      zone_bonus == IF is_optimal_zone(t, zone_type)
                    THEN RNorm(<< t.optimal_zone_bonus, 100 >>) ELSE << 1, 1 >>
      gain == RFloor(RDiv(RMul(RMul(RMul(RMul(RMul(RInt(t.photosynthesis_rate),
                                                   zone_modifier),
                                              adaptation_mult),
                                         food_mult),
                                    zone_bonus),
                               population_pressure),
                          RNorm(<< t.metabolic_efficiency, 100 >>)))
      e2 == Min2(c.max_energy, e1 + gain)
  IN IF t.max_lifespan > 0 /\ age1 >= t.max_lifespan
     THEN [ c EXCEPT !.age = age1, !.is_alive = FALSE ]
     ELSE IF Starved(t, zone_type, e2)
     THEN [ c EXCEPT !.age = age1, !.energy = e2, !.is_alive = FALSE ]
     ELSE [ c EXCEPT !.age = age1, !.energy = e2 ]

\* a loop body that leaves deaths_this_gen alone when the cell dies
AgeSiteUncounted(i, st, zc, pcache) ==
  LET s == SiteAt(i)
      ref == cells[s]
  IN IF ref = None \/ ~st.objs[ref].is_alive THEN st
     ELSE LET c == st.objs[ref]
              spref == RegGet(species_by_id, c.species_id)
              sp == st.species[spref]
              zi == _get_cached_zone(zc, s[1], s[2])
              zone == ZoneObj(zones, default_zone, zi)
              has_prey == _has_prey_nearby(s[1], s[2], sp, cells, st.objs,
                                           st.species, species_by_id)
              colony_bonus == _get_colony_bonus(s[1], s[2], c.species_id, sp,
                                                cells, st.objs)
              energy_mult == RMul(RNorm(<< zone.properties.energy_decay_mult, 10 >>),
                                  colony_bonus)
              c2 == age_one_generation(c, sp.traits, energy_mult, zone.properties.tag,
                                       has_prey, _get_cached_pressure(pcache, zi))
          IN IF c2.is_alive
             THEN [ st EXCEPT !.objs[ref] = c2 ]
             ELSE [ st EXCEPT !.objs[ref] = c2,
                              !.species[spref].total_deaths =
                                 st.species[spref].total_deaths + 1 ]

\* the body of the loop of process_aging for the site visited i-th
AgeSite(i, st, zc, pcache) ==
  LET s == SiteAt(i)
      ref == cells[s]
  IN IF ref = None \/ ~st.objs[ref].is_alive THEN st
     ELSE LET c == st.objs[ref]
              spref == RegGet(species_by_id, c.species_id)
              sp == st.species[spref]
              zi == _get_cached_zone(zc, s[1], s[2])
              zone == ZoneObj(zones, default_zone, zi)
              has_prey == _has_prey_nearby(s[1], s[2], sp, cells, st.objs,
                                           st.species, species_by_id)
              colony_bonus == _get_colony_bonus(s[1], s[2], c.species_id, sp,
                                                cells, st.objs)
              energy_mult == RMul(RNorm(<< zone.properties.energy_decay_mult, 10 >>),
                                  colony_bonus)
              c2 == age_one_generation(c, sp.traits, energy_mult, zone.properties.tag,
                                       has_prey, _get_cached_pressure(pcache, zi))
          IN IF c2.is_alive
             THEN [ st EXCEPT !.objs[ref] = c2 ]
             ELSE [ st EXCEPT !.objs[ref] = c2,
                              !.deaths = st.deaths + 1,
                              !.species[spref].total_deaths =
                                 st.species[spref].total_deaths + 1 ]

RECURSIVE AgingLoop(_, _, _, _)
AgingLoop(i, st, zc, pcache) ==
  IF i > NumSites THEN st
  ELSE AgingLoop(i + 1, AgeSite(i, st, zc, pcache), zc, pcache)

\* Grid.process_aging
ProcessAging ==
  /\ pc = "aging"
  /\ LET caches == BuildZoneCache(cells, cellobj)
         st == AgingLoop(1, [ objs |-> cellobj, species |-> species,
                              deaths |-> deaths_this_gen ],
                         caches[1], caches[2])
     IN /\ zone_cache' = caches[1]
        /\ zone_pressure_cache' = caches[2]
        /\ zone_cache_generation' = generation
        /\ cellobj' = st.objs
        /\ species' = st.species
        /\ deaths_this_gen' = st.deaths
  /\ pc' = "move_collect"
  /\ UNCHANGED << gridVars, stats, entry, cells, next_id, species_by_id, extinct_species, zoneVars,
                  neighborCacheVars, generation, births_this_gen, mutations_this_gen,
                  localVars, callerVars, last_call, ret >>


\* ------------------------------------------------------ phase 2: movement
\* Cell.can_move
can_move(c, t) == c.is_alive /\ ~c.has_moved_this_gen /\ c.energy >= t.movement_cost

\* the sites in the order of "for y in range(height): for x in range(width)"
ScanOrder == [ i \in 1 .. NumSites |-> SiteAt(i) ]

\* process_movement: the collection of the cells that can move
MoveCollect ==
  /\ pc = "move_collect"
  /\ LET caches == BuildZoneCache(cells, cellobj)
         movers == SelectSeq(ScanOrder, LAMBDA s :
                     /\ LiveAt(cells, cellobj, s)
                     /\ LET c == cellobj[cells[s]]
                        IN can_move(c, species[RegGet(species_by_id, c.species_id)].traits))
     IN /\ zone_cache' = caches[1]
        /\ zone_pressure_cache' = caches[2]
        /\ zone_cache_generation' = generation
        /\ mobile_cells' = [ i \in 1 .. Len(movers) |->
                               << movers[i][1], movers[i][2], cells[movers[i]] >> ]
  /\ pc' = "move"
  /\ UNCHANGED << gridVars, stats, entry, cells, cellobj, registryVars, zoneVars, neighborCacheVars,
                  generation, counterVars, migration_pressure, predation_events, scan,
                  birth_queue, death_queue, callerVars, last_call, ret >>

\* the values should_move can take for the mover, over the RNG draws
ShouldMoveSet(x, y, c, sp) ==
  LET t == sp.traits
      strategy == get_movement_strategy(t)
      zi == _get_cached_zone(zone_cache, x, y)
      zone == ZoneObj(zones, default_zone, zi)
      thr == t.reproduction_threshold
      by_strategy ==
        IF strategy = "hunt"
        THEN IF \/ ~_has_prey_nearby(x, y, sp, cells, cellobj, species, species_by_id)
                \/ 10 * c.energy < 12 * thr
             THEN { TRUE } ELSE { TRUE, FALSE }
        ELSE IF strategy = "flee"
        THEN IF _has_predators_nearby(x, y, cells, cellobj, species, species_by_id)
             THEN { TRUE }
             ELSE IF 10 * c.energy < 7 * thr
                  THEN { zone.properties.energy_generation_mult < 10 }
                  ELSE { FALSE }
        ELSE IF RLt(_get_cached_pressure(zone_pressure_cache, zi), << 8, 10 >>)
             THEN { TRUE }
             ELSE IF zone.properties.energy_generation_mult < 10 THEN { TRUE }
             ELSE IF 10 * c.energy > 12 * thr THEN { TRUE, FALSE }
             ELSE IF 100 * c.energy < 85 * thr THEN { TRUE }
             ELSE { FALSE }
  IN IF migration_pressure > 0 THEN by_strategy \cup { TRUE } ELSE by_strategy

\* a radius of 2 at every energy
MovementRangeFar(c, t) == 2

\* the radius of the candidate sites
MovementRange(c, t) ==
  IF 10 * c.energy < 5 * t.reproduction_threshold THEN 2
  ELSE IF 10 * c.energy > 15 * t.reproduction_threshold THEN 2
  ELSE 1

\* a filter that forgets the zone
ValidSpotAnyZone(s, c) ==
  \/ cells[s] = None
  \/ /\ cellobj[cells[s]].is_alive
     /\ 10 * c.energy > 11 * cellobj[cells[s]].energy

\* the filter for valid spots: enterable, and empty or held by a weaker cell
ValidSpot(s, c) ==
  /\ ZoneObj(zones, default_zone, _get_cached_zone(zone_cache, s[1], s[2])).properties.can_enter
  /\ \/ cells[s] = None
     \/ /\ cellobj[cells[s]].is_alive
        /\ 10 * c.energy > 11 * cellobj[cells[s]].energy

valid_spots(x, y, c, t) ==
  SelectSeq(get_neighbors(x, y, MovementRange(c, t)), LAMBDA s : ValidSpot(s, c))

SeqToSet(q) == { q[i] : i \in 1 .. Len(q) }

\* the first entry of spots with the largest (smallest, for sign = -1) score;
\* scores[i] is the score of spots[i]
FirstBest(spots, scores, sign) ==
  LET best == CHOOSE i \in 1 .. Len(spots) :
                /\ \A j \in 1 .. Len(spots) : sign * scores[j] <= sign * scores[i]
                /\ \A j \in 1 .. i - 1 : sign * scores[j] < sign * scores[i]
  IN spots[best]

\* a seeker that takes the lowest score when a site beats the current zone
_move_energy_seeking_worst(x, y, spots) ==
  LET current_energy_mult ==
        ZoneObj(zones, default_zone,
                _get_cached_zone(zone_cache, x, y)).properties.energy_generation_mult
      score(s) ==
        LET p == ZoneObj(zones, default_zone,
                         _get_cached_zone(zone_cache, s[1], s[2])).properties
        IN p.energy_generation_mult - p.energy_decay_mult
  IN IF \E i \in 1 .. Len(spots) : score(spots[i]) > current_energy_mult
     THEN { FirstBest(spots, [ i \in 1 .. Len(spots) |-> score(spots[i]) ], -1) }
     ELSE SeqToSet(spots)

\* Grid._move_energy_seeking: the sites it can return
_move_energy_seeking(x, y, spots) ==
  LET current_energy_mult ==
        ZoneObj(zones, default_zone,
                _get_cached_zone(zone_cache, x, y)).properties.energy_generation_mult
      score(s) ==
        LET p == ZoneObj(zones, default_zone,
                         _get_cached_zone(zone_cache, s[1], s[2])).properties
        IN p.energy_generation_mult - p.energy_decay_mult
  IN IF \E i \in 1 .. Len(spots) : score(spots[i]) > current_energy_mult
     THEN { FirstBest(spots, [ i \in 1 .. Len(spots) |-> score(spots[i]) ], 1) }
     ELSE SeqToSet(spots)

\* min(abs(nx - px) + abs(ny - py) for px, py in others)
MinDist(s, others) ==
  LET d(o) == Abs(s[1] - o[1]) + Abs(s[2] - o[2])
      i == CHOOSE i \in 1 .. Len(others) : \A j \in 1 .. Len(others) : d(others[i]) <= d(others[j])
  IN d(others[i])

\* Grid._move_flee
_move_flee(x, y, spots) ==
  LET predators_nearby ==
        SelectSeq(get_neighbors(x, y, 1), LAMBDA s :
          /\ LiveAt(cells, cellobj, s)
          /\ can_hunt(species[RegGet(species_by_id, cellobj[cells[s]].species_id)].traits))
  IN IF predators_nearby = << >> THEN _move_energy_seeking(x, y, spots)
     ELSE { FirstBest(spots, [ i \in 1 .. Len(spots) |-> MinDist(spots[i], predators_nearby) ], 1) }

\* Grid._move_hunt
_move_hunt(x, y, spots) ==
  LET prey_nearby ==
        SelectSeq(get_neighbors(x, y, 1), LAMBDA s :
          /\ LiveAt(cells, cellobj, s)
          /\ LET nt == species[RegGet(species_by_id, cellobj[cells[s]].species_id)].traits
             IN nt.can_be_consumed /\ ~can_hunt(nt))
  IN IF prey_nearby = << >> THEN _move_energy_seeking(x, y, spots)
     ELSE { FirstBest(spots, [ i \in 1 .. Len(spots) |-> MinDist(spots[i], prey_nearby) ], -1) }

\* the destinations the strategy of the species can choose
Destinations(x, y, t, spots) ==
  LET strategy == get_movement_strategy(t)
  IN IF strategy = "energy_seeking" THEN _move_energy_seeking(x, y, spots)
     ELSE IF strategy = "flee" THEN _move_flee(x, y, spots)
     ELSE _move_hunt(x, y, spots)

\* an iteration that leaves the flag unset and queues the mover again
MoveOneAgain ==
  /\ pc = "move"
  /\ mobile_cells # << >>
  /\ LET old_x == Head(mobile_cells)[1]
         old_y == Head(mobile_cells)[2]
         ref == Head(mobile_cells)[3]
         c == cellobj[ref]
         sp == species[RegGet(species_by_id, c.species_id)]
         spots == valid_spots(old_x, old_y, c, sp.traits)
     IN \E should_move \in ShouldMoveSet(old_x, old_y, c, sp) :
          IF ~should_move \/ spots = << >> \/ ~can_move(c, sp.traits)
          THEN /\ UNCHANGED << cells, cellobj, deaths_this_gen >>
               /\ mobile_cells' = Tail(mobile_cells)
          ELSE \E target \in Destinations(old_x, old_y, sp.traits, spots) :
                 LET moved == [ c EXCEPT !.x = target[1], !.y = target[2],
                                         !.energy = c.energy - sp.traits.movement_cost,
                                         !.has_moved_this_gen = FALSE ]
                     tref == cells[target]
                     displaced == tref # None /\ cellobj[tref].is_alive
                 IN /\ cellobj' = IF displaced
                                  THEN [ cellobj EXCEPT ![ref] = moved,
                                                        ![tref].is_alive = FALSE ]
                                  ELSE [ cellobj EXCEPT ![ref] = moved ]
                    /\ deaths_this_gen' = IF displaced THEN deaths_this_gen + 1
                                          ELSE deaths_this_gen
                    /\ cells' = [ cells EXCEPT ![ << old_x, old_y >>] = None,
                                               ![target] = ref ]
                    /\ mobile_cells' = Append(Tail(mobile_cells),
                                              << target[1], target[2], ref >>)
  /\ UNCHANGED << gridVars, stats, entry, registryVars, zoneVars, zoneCacheVars, neighborCacheVars,
                  generation, births_this_gen, mutations_this_gen, pc, migration_pressure,
                  predation_events, scan, birth_queue, death_queue, callerVars,
                  last_call, ret >>

\* process_movement: one iteration of the loop over mobile_cells
MoveOne ==
  /\ pc = "move"
  /\ mobile_cells # << >>
  /\ LET old_x == Head(mobile_cells)[1]
         old_y == Head(mobile_cells)[2]
         ref == Head(mobile_cells)[3]
         c == cellobj[ref]
         sp == species[RegGet(species_by_id, c.species_id)]
         spots == valid_spots(old_x, old_y, c, sp.traits)
     IN \E should_move \in ShouldMoveSet(old_x, old_y, c, sp) :
          IF ~should_move \/ spots = << >> \/ ~can_move(c, sp.traits)
          THEN UNCHANGED << cells, cellobj, deaths_this_gen >>
          ELSE \E target \in Destinations(old_x, old_y, sp.traits, spots) :
                 LET moved == [ c EXCEPT !.x = target[1], !.y = target[2],
                                         !.energy = c.energy - sp.traits.movement_cost,
                                         !.has_moved_this_gen = TRUE ]
                     tref == cells[target]
                     displaced == tref # None /\ cellobj[tref].is_alive
                 IN /\ cellobj' = IF displaced
                                  THEN [ cellobj EXCEPT ![ref] = moved,
                                                        ![tref].is_alive = FALSE ]
                                  ELSE [ cellobj EXCEPT ![ref] = moved ]
                    /\ deaths_this_gen' = IF displaced THEN deaths_this_gen + 1
                                          ELSE deaths_this_gen
                    /\ cells' = [ cells EXCEPT ![ << old_x, old_y >>] = None,
                                               ![target] = ref ]
  /\ mobile_cells' = Tail(mobile_cells)
  /\ UNCHANGED << gridVars, stats, entry, registryVars, zoneVars, zoneCacheVars, neighborCacheVars,
                  generation, births_this_gen, mutations_this_gen, pc, migration_pressure,
                  predation_events, scan, birth_queue, death_queue, callerVars,
                  last_call, ret >>

\* process_movement: the loop that resets the movement flags
MoveReset ==
  /\ pc = "move"
  /\ mobile_cells = << >>
  /\ cellobj' = [ r \in 1 .. Len(cellobj) |->
                    IF cellobj[r].is_alive /\ \E s \in Sites : cells[s] = r
                    THEN [ cellobj[r] EXCEPT !.has_moved_this_gen = FALSE ]
                    ELSE cellobj[r] ]
  /\ pc' = "pred_collect"
  /\ scan' = 0
  /\ predation_events' = << >>
  /\ UNCHANGED << gridVars, stats, entry, cells, registryVars, zoneVars, zoneCacheVars,
                  neighborCacheVars, generation, counterVars, migration_pressure,
                  mobile_cells, birth_queue, death_queue, callerVars, last_call, ret >>


\* ----------------------------------------------------- phase 3: predation
\* the prey_neighbors list of the hunter at site s (the sites, duplicates kept)
prey_neighbors(s) ==
  LET me == cellobj[cells[s]]
  IN SelectSeq(get_neighbors(s[1], s[2], 1), LAMBDA n :
       /\ LiveAt(cells, cellobj, n)
       /\ species[RegGet(species_by_id, cellobj[cells[n]].species_id)].traits.can_be_consumed
       /\ cellobj[cells[n]].species_id # me.species_id)

\* a living cell of a hunting species with something to attack
HunterWithPrey(s) ==
  /\ LiveAt(cells, cellobj, s)
  /\ can_hunt(species[RegGet(species_by_id, cellobj[cells[s]].species_id)].traits)
  /\ prey_neighbors(s) # << >>

\* the positions in the scan, after the first `scan` sites, where an event is collected
HuntersAhead == { i \in scan + 1 .. NumSites : HunterWithPrey(SiteAt(i)) }

\* process_predation: the scan advances to the next hunter, which picks its prey
PredCollectOne ==
  /\ pc = "pred_collect"
  /\ HuntersAhead # {}
  /\ LET i == CHOOSE i \in HuntersAhead : \A j \in HuntersAhead : i <= j
         s == SiteAt(i)
         prey == prey_neighbors(s)
     IN /\ \E k \in 1 .. Len(prey) :
             predation_events' =
               Append(predation_events,
                      [ predator_cell |-> cells[s],
                        predator_species |-> RegGet(species_by_id, cellobj[cells[s]].species_id),
                        prey_cell |-> cells[prey[k]],
                        px |-> prey[k][1], py |-> prey[k][2] ])
        /\ scan' = i
  /\ UNCHANGED << gridVars, stats, entry, cells, cellobj, registryVars, zoneVars, zoneCacheVars,
                  neighborCacheVars, generation, counterVars, pc, migration_pressure,
                  mobile_cells, birth_queue, death_queue, callerVars, last_call, ret >>

\* a loop body that consumes the prey whether or not it is still alive
ApplyEventUnchecked(ev, st) ==
  IF FALSE THEN st
  ELSE LET prey == st.objs[ev.prey_cell]
           pred == st.objs[ev.predator_cell]
           prey_species == RegGet(species_by_id, prey.species_id)
           gained == energy_gained(prey.energy, st.species[ev.predator_species].traits)
           objs1 == [ st.objs EXCEPT ![ev.predator_cell].energy =
                                       Min2(pred.max_energy, pred.energy + gained) ]
       IN [ objs |-> [ objs1 EXCEPT ![ev.prey_cell].is_alive = FALSE ],
            cells |-> [ st.cells EXCEPT ![ << ev.px, ev.py >>] = None ],
            deaths |-> st.deaths + 1,
            species |-> [ st.species EXCEPT ![prey_species].total_deaths =
                                              st.species[prey_species].total_deaths + 1 ] ]

\* the body of the loop over predation_events
ApplyEvent(ev, st) ==
  IF ~st.objs[ev.prey_cell].is_alive THEN st
  ELSE LET prey == st.objs[ev.prey_cell]
           pred == st.objs[ev.predator_cell]
           prey_species == RegGet(species_by_id, prey.species_id)
           gained == energy_gained(prey.energy, st.species[ev.predator_species].traits)
           objs1 == [ st.objs EXCEPT ![ev.predator_cell].energy =
                                       Min2(pred.max_energy, pred.energy + gained) ]
       IN [ objs |-> [ objs1 EXCEPT ![ev.prey_cell].is_alive = FALSE ],
            cells |-> [ st.cells EXCEPT ![ << ev.px, ev.py >>] = None ],
            deaths |-> st.deaths + 1,
            species |-> [ st.species EXCEPT ![prey_species].total_deaths =
                                              st.species[prey_species].total_deaths + 1 ] ]

RECURSIVE ApplyEvents(_, _)
ApplyEvents(evs, st) ==
  IF evs = << >> THEN st ELSE ApplyEvents(Tail(evs), ApplyEvent(Head(evs), st))

\* process_predation: the rest of the scan finds no hunter; the events are applied
PredApply ==
  /\ pc = "pred_collect"
  /\ HuntersAhead = {}
  /\ LET st == ApplyEvents(predation_events,
                           [ objs |-> cellobj, cells |-> cells,
                             deaths |-> deaths_this_gen, species |-> species ])
     IN /\ cellobj' = st.objs
        /\ cells' = st.cells
        /\ deaths_this_gen' = st.deaths
        /\ species' = st.species
  /\ scan' = 0
  /\ pc' = "repro_begin"
  /\ UNCHANGED << gridVars, stats, entry, next_id, species_by_id, extinct_species, zoneVars,
                  zoneCacheVars, neighborCacheVars, generation, births_this_gen,
                  mutations_this_gen, migration_pressure, mobile_cells, predation_events,
                  birth_queue, death_queue, callerVars, last_call, ret >>


\* -------------------------------------------------- phase 4: reproduction
\* Grid.count_living_neighbors
count_living_neighbors(x, y) ==
  IF neighbor_cache # << >> /\ neighbor_cache_generation = generation
  THEN neighbor_cache[<< x, y >>]
  ELSE CountLive(cells, cellobj, get_neighbors(x, y, 1))

\* a start of the phase that keeps the neighbour counts of an earlier tick
ReproBeginStale ==
  /\ pc = "repro_begin"
  /\ neighbor_cache' = IF neighbor_cache = << >>
                       THEN count_all_neighbors(cells, cellobj)
                       ELSE neighbor_cache
  /\ neighbor_cache_generation' = generation
  /\ LET caches == BuildZoneCache(cells, cellobj)
     IN /\ zone_cache' = caches[1]
        /\ zone_pressure_cache' = caches[2]
        /\ zone_cache_generation' = generation
  /\ birth_queue' = << >>
  /\ death_queue' = << >>
  /\ scan' = 0
  /\ pc' = "repro_scan"
  /\ UNCHANGED << gridVars, stats, entry, cells, cellobj, registryVars, zoneVars, generation,
                  counterVars, migration_pressure, mobile_cells, predation_events,
                  callerVars, last_call, ret >>

\* process_reproduction: the two cache builds and the empty queues
ReproBegin ==
  /\ pc = "repro_begin"
  /\ neighbor_cache' = count_all_neighbors(cells, cellobj)
  /\ neighbor_cache_generation' = generation
  /\ LET caches == BuildZoneCache(cells, cellobj)
     IN /\ zone_cache' = caches[1]
        /\ zone_pressure_cache' = caches[2]
        /\ zone_cache_generation' = generation
  /\ birth_queue' = << >>
  /\ death_queue' = << >>
  /\ scan' = 0
  /\ pc' = "repro_scan"
  /\ UNCHANGED << gridVars, stats, entry, cells, cellobj, registryVars, zoneVars, generation,
                  counterVars, migration_pressure, mobile_cells, predation_events,
                  callerVars, last_call, ret >>

\* a survival test with the 2-3 window at every energy
DeathSetConway(c, neighbors_count) ==
  LET medium == ~(10 * c.energy > 7 * c.max_energy) /\ 10 * c.energy > 4 * c.max_energy
      by_rule == IF neighbors_count < 2 \/ neighbors_count > 3
                 THEN { TRUE }
                 ELSE IF neighbors_count = 3 /\ c.age > 50
                      THEN { TRUE, FALSE }
                      ELSE { FALSE }
  IN IF medium /\ neighbors_count = 4 THEN by_rule \cup { TRUE } ELSE by_rule

\* the decisions the scan can take for a living cell: TRUE queues its death
DeathSet(c, neighbors_count) ==
  LET medium == ~(10 * c.energy > 7 * c.max_energy) /\ 10 * c.energy > 4 * c.max_energy
      low == ~(10 * c.energy > 4 * c.max_energy)
      min_neighbors == IF low THEN 3 ELSE 2
      max_neighbors == IF low THEN 4 ELSE 3
      by_rule == IF neighbors_count < min_neighbors \/ neighbors_count > max_neighbors
                 THEN { TRUE }
                 ELSE IF neighbors_count = max_neighbors /\ c.age > 50
                      THEN { TRUE, FALSE }
                      ELSE { FALSE }
  IN IF medium /\ neighbors_count = 4 THEN by_rule \cup { TRUE } ELSE by_rule

\* Grid._get_cluster_reproduction_bonus
_get_cluster_reproduction_bonus(x, y, species_id, t) ==
  LET same_species_count ==
        Len(SelectSeq(get_neighbors(x, y, 1), LAMBDA s :
              LiveAt(cells, cellobj, s) /\ cellobj[cells[s]].species_id = species_id))
  IN RNorm(<< 300 + Min2(3, same_species_count) * (t.cluster_reproduction_bonus - 100), 300 >>)

\* max(1.0, 1.0 / max(0.8, population_pressure))
ReproductionDifficulty(pressure) ==
  LET p == IF RLt(pressure, << 4, 5 >>) THEN << 4, 5 >> ELSE pressure
      inv == << p[2], p[1] >>
  IN IF RLt(inv, << 1, 1 >>) THEN << 1, 1 >> ELSE inv

\* reproduction_threshold * reproduction_difficulty / (native_zone_bonus * cluster_bonus)
EffectiveThreshold(x, y, sp, zi) ==
  LET t == sp.traits
      zone == ZoneObj(zones, default_zone, zi)
      native_zone_bonus == IF zone.properties.tag = t.native_zone_type
                           THEN RNorm(<< t.native_zone_affinity, 100 >>) ELSE << 1, 1 >>
      cluster_bonus == _get_cluster_reproduction_bonus(x, y, sp.id, t)
  IN RDiv(RMul(RInt(t.reproduction_threshold),
               ReproductionDifficulty(_get_cached_pressure(zone_pressure_cache, zi))),
          RMul(native_zone_bonus, cluster_bonus))

\* Cell.can_reproduce
can_reproduce(c, t) == c.is_alive /\ c.energy >= t.reproduction_threshold

\* the references of the living neighbours of a site
neighbor_cells(x, y) ==
  LET live == SelectSeq(get_neighbors(x, y, 1), LAMBDA s : LiveAt(cells, cellobj, s))
  IN { cells[live[i]] : i \in 1 .. Len(live) }

\* a partner search that takes a neighbour of any species
same_species_neighbors_any(nc, parent, species_id) ==
  { o \in nc : o # parent }

\* same_species_neighbors: the living neighbours of the parent's species other
\* than the parent
same_species_neighbors(nc, parent, species_id) ==
  { o \in nc : o # parent /\ cellobj[o].species_id = species_id }

\* a mutation check that can fire at rate 0 (random.random() <= rate)
MutateSetInclusive(t, zone, sexual) ==
  LET rate == t.mutation_rate * zone.properties.mutation_rate_mult
      one == IF sexual THEN 20000 ELSE 10000
  IN IF rate >= one THEN { TRUE } ELSE { TRUE, FALSE }

\* the outcomes of random.random() < effective_mutation_rate
MutateSet(t, zone, sexual) ==
  LET rate == t.mutation_rate * zone.properties.mutation_rate_mult   \* in 1/10000
      one == IF sexual THEN 20000 ELSE 10000
  IN IF rate = 0 THEN { FALSE }
     ELSE IF rate >= one THEN { TRUE }
     ELSE { TRUE, FALSE }

\* the scan of process_reproduction visits a site that holds a living cell
ReproScanLiving ==
  /\ pc = "repro_scan"
  /\ scan < NumSites
  /\ LiveAt(cells, cellobj, SiteAt(scan + 1))
  /\ LET s == SiteAt(scan + 1)
     IN \E dies \in DeathSet(cellobj[cells[s]], count_living_neighbors(s[1], s[2])) :
          death_queue' = IF dies THEN Append(death_queue, s) ELSE death_queue
  /\ scan' = scan + 1
  /\ UNCHANGED << gridVars, stats, entry, cells, cellobj, registryVars, zoneVars, zoneCacheVars,
                  neighborCacheVars, generation, counterVars, pc, migration_pressure,
                  mobile_cells, predation_events, birth_queue, callerVars, last_call, ret >>

\* the scan visits an empty site (or a dead cell) where no birth is queued:
\* the neighbour count, the missing partner, the zone, the birth probability or
\* the crowding of the zone rules it out
ReproScanNoBirth ==
  /\ pc = "repro_scan"
  /\ scan < NumSites
  /\ ~LiveAt(cells, cellobj, SiteAt(scan + 1))
  /\ LET s == SiteAt(scan + 1)
         k == count_living_neighbors(s[1], s[2])
         nc == neighbor_cells(s[1], s[2])
         zi == _get_cached_zone(zone_cache, s[1], s[2])
         zone == ZoneObj(zones, default_zone, zi)
         pressure == _get_cached_pressure(zone_pressure_cache, zi)
     IN \/ ~(2 <= k /\ k <= 4)
        \/ CountLive(cells, cellobj, get_neighbors(s[1], s[2], 1)) < 2
        \/ \E parent \in nc :
             LET sp == species[RegGet(species_by_id, cellobj[parent].species_id)]
             IN \/ /\ sp.traits.sexual_reproduction
                   /\ same_species_neighbors(nc, parent, sp.id) = { }
                \/ ~zone.properties.can_enter
                \/ k # 3
                \/ /\ ~( /\ can_reproduce(cellobj[parent], sp.traits)
                         /\ RLe(EffectiveThreshold(s[1], s[2], sp, zi),
                                RInt(cellobj[parent].energy)) )
                   /\ RLt(pressure, << 3, 5 >>)
  /\ scan' = scan + 1
  /\ UNCHANGED << gridVars, stats, entry, cells, cellobj, registryVars, zoneVars, zoneCacheVars,
                  neighborCacheVars, generation, counterVars, pc, migration_pressure,
                  mobile_cells, predation_events, birth_queue, death_queue, callerVars,
                  last_call, ret >>


\* Cell.consume_reproduction_energy: the cell afterwards; cost // 2 is returned
consume_reproduction_energy(c, t) == [ c EXCEPT !.energy = c.energy - t.energy_from_birth ]

\* Species.mutate(generation): the new Species object
mutate(sp, gen, id, d) == NewSpecies(id, MutateTraits(sp.traits, d), sp.id, gen)

\* the scan visits an empty site (or a dead cell) and queues a birth there
ReproScanBirth ==
  /\ pc = "repro_scan"
  /\ scan < NumSites
  /\ ~LiveAt(cells, cellobj, SiteAt(scan + 1))
  /\ LET s == SiteAt(scan + 1)
         k == count_living_neighbors(s[1], s[2])
         nc == neighbor_cells(s[1], s[2])
         zi == _get_cached_zone(zone_cache, s[1], s[2])
         zone == ZoneObj(zones, default_zone, zi)
         pressure == _get_cached_pressure(zone_pressure_cache, zi)
     IN /\ 2 <= k /\ k <= 4
        /\ CountLive(cells, cellobj, get_neighbors(s[1], s[2], 1)) >= 2
        /\ zone.properties.can_enter
        /\ \E parent \in nc :
             LET spref == RegGet(species_by_id, cellobj[parent].species_id)
                 sp == species[spref]
                 t == sp.traits
                 partners == IF t.sexual_reproduction
                             THEN same_species_neighbors(nc, parent, sp.id)
                             ELSE { None }
                 funded == /\ can_reproduce(cellobj[parent], t)
                           /\ RLe(EffectiveThreshold(s[1], s[2], sp, zi),
                                  RInt(cellobj[parent].energy))
             IN /\ funded \/ ~RLt(pressure, << 3, 5 >>)
                /\ \E second \in partners :
                     LET pays2 == funded /\ second # None /\ can_reproduce(cellobj[second], t)
                         objs1 == IF funded
                                  THEN [ cellobj EXCEPT ![parent] =
                                           consume_reproduction_energy(cellobj[parent], t) ]
                                  ELSE cellobj
                         objs2 == IF pays2
                                  THEN [ objs1 EXCEPT ![second] =
                                           consume_reproduction_energy(objs1[second], t) ]
                                  ELSE objs1
                         offspring_energy ==
                           IF funded
                           THEN (t.energy_from_birth \div 2)
                                + (IF pays2 THEN (t.energy_from_birth \div 2) \div 2 ELSE 0)
                           ELSE t.base_energy \div 3
                     IN /\ cellobj' = objs2
                        /\ \E mutates \in MutateSet(t, zone, second # None) :
                             IF mutates
                             THEN /\ Len(species) < MaxSpecies
                                  /\ \E d \in MutationDraws :
                                       /\ species' = Append(species,
                                                            mutate(sp, generation, next_id, d))
                                       /\ next_id' = AdvanceId(next_id)
                                       /\ species_by_id' =
                                            (next_id :> Len(species) + 1) @@ species_by_id
                                       /\ birth_queue' = Append(birth_queue,
                                            [ x |-> s[1], y |-> s[2], species_id |-> next_id,
                                              energy |-> offspring_energy ])
                                       /\ mutations_this_gen' = mutations_this_gen + 1
                             ELSE /\ birth_queue' = Append(birth_queue,
                                       [ x |-> s[1], y |-> s[2], species_id |-> sp.id,
                                         energy |-> offspring_energy ])
                                  /\ UNCHANGED << species, next_id, species_by_id,
                                                  mutations_this_gen >>
  /\ scan' = scan + 1
  /\ UNCHANGED << gridVars, stats, entry, cells, extinct_species, zoneVars, zoneCacheVars,
                  neighborCacheVars, generation, births_this_gen, deaths_this_gen, pc,
                  migration_pressure, mobile_cells, predation_events, death_queue,
                  callerVars, last_call, ret >>

\* "Apply deaths": the loop over death_queue
RECURSIVE ApplyDeaths(_, _)
ApplyDeaths(q, st) ==
  IF q = << >> THEN st
  ELSE LET s == Head(q)
           ref == st.cells[s]
       IN IF ref = None THEN ApplyDeaths(Tail(q), st)
          ELSE LET spref == RegGet(species_by_id, st.objs[ref].species_id)
                   sps == IF spref # None
                          THEN [ st.species EXCEPT ![spref].total_deaths =
                                                     st.species[spref].total_deaths + 1 ]
                          ELSE st.species
               IN ApplyDeaths(Tail(q),
                    [ st EXCEPT !.species = sps,
                                !.objs[ref].is_alive = FALSE,
                                !.cells[s] = None,
                                !.deaths = st.deaths + 1 ])

\* a birth applied without counting it in births_this_gen
ApplyBirthUncounted(b, st) ==
  LET spref == RegGet(species_by_id, b.species_id)
  IN IF spref = None THEN st
     ELSE [ st EXCEPT
              !.objs = Append(st.objs, NewCell(b.x, b.y, st.species[spref], b.energy)),
              !.cells[<< b.x, b.y >>] = Len(st.objs) + 1,
              !.species[spref].total_births = st.species[spref].total_births + 1 ]

\* "Apply births": the body of the loop over birth_queue
ApplyBirth(b, st) ==
  LET spref == RegGet(species_by_id, b.species_id)
  IN IF spref = None THEN st
     ELSE [ st EXCEPT
              !.objs = Append(st.objs, NewCell(b.x, b.y, st.species[spref], b.energy)),
              !.cells[<< b.x, b.y >>] = Len(st.objs) + 1,
              !.species[spref].total_births = st.species[spref].total_births + 1,
              !.births = st.births + 1 ]

RECURSIVE ApplyBirths(_, _)
ApplyBirths(q, st) ==
  IF q = << >> THEN st ELSE ApplyBirths(Tail(q), ApplyBirth(Head(q), st))

\* process_reproduction: the scan is over; deaths, then births, are applied
ReproApply ==
  /\ pc = "repro_scan"
  /\ scan = NumSites
  /\ LET st0 == [ cells |-> cells, objs |-> cellobj, species |-> species,
                  deaths |-> deaths_this_gen, births |-> births_this_gen ]
         st == ApplyBirths(birth_queue, ApplyDeaths(death_queue, st0))
     IN /\ cells' = st.cells
        /\ cellobj' = st.objs
        /\ species' = st.species
        /\ deaths_this_gen' = st.deaths
        /\ births_this_gen' = st.births
  /\ birth_queue' = << >>
  /\ death_queue' = << >>
  /\ scan' = 0
  /\ pc' = "update"
  /\ UNCHANGED << gridVars, stats, entry, next_id, species_by_id, extinct_species, zoneVars,
                  zoneCacheVars, neighborCacheVars, generation, mutations_this_gen,
                  migration_pressure, mobile_cells, predation_events, callerVars,
                  last_call, ret >>

\* ------------------------------------------------- phase 5: the registry
\* the ids in ascending order
RECURSIVE SortedIds(_)
SortedIds(S) ==
  IF S = {} THEN << >>
  ELSE LET m == CHOOSE a \in S : \A b \in S : a <= b
       IN << m >> \o SortedIds(S \ { m })

\* a count that takes every stored cell, dead ones included
CountStored(grid, objs, id) ==
  Cardinality({ s \in Sites : grid[s] # None /\ objs[grid[s]].species_id = id })

\* update_populations, "Count living cells": the count one registered species ends with
CountLiving(grid, objs, id) ==
  Cardinality({ s \in Sites : LiveAt(grid, objs, s) /\ objs[grid[s]].species_id = id })

\* SpeciesRegistry.update_populations: recount, then mark_extinct each species
\* whose population is 0
update_populations(specs, byid, extinct, grid, objs) ==
  LET count(id) == CountLiving(grid, objs, id)
      registered == { byid[id] : id \in DOMAIN byid }
      specs1 == [ r \in 1 .. Len(specs) |->
                    IF r \in registered
                    THEN [ specs[r] EXCEPT !.population = count(specs[r].id) ]
                    ELSE specs[r] ]
      extinct_ids == { id \in DOMAIN byid : specs1[byid[id]].population = 0 }
      gone == SortedIds(extinct_ids)
  IN [ species |-> specs1,
       species_by_id |-> [ id \in (DOMAIN byid) \ extinct_ids |-> byid[id] ],
       extinct_species |-> extinct \o [ i \in 1 .. Len(gone) |-> byid[gone[i]] ] ]

\* a registry update that counts the grid as it stood when step() began
UpdatePopulationsAtEntry ==
  /\ pc = "update"
  /\ LET r == update_populations(species, species_by_id, extinct_species,
                                 entry.cells, entry.cellobj)
     IN /\ species' = r.species
        /\ species_by_id' = r.species_by_id
        /\ extinct_species' = r.extinct_species
  /\ pc' = "idle"
  /\ ret' = generation
  /\ last_call' = "step"
  /\ UNCHANGED << gridVars, stats, entry, cells, cellobj, next_id, zoneVars, zoneCacheVars,
                  neighborCacheVars, generation, counterVars, localVars, callerVars >>

\* step(): the registry update, and the return of the generation number
UpdatePopulations ==
  /\ pc = "update"
  /\ LET r == update_populations(species, species_by_id, extinct_species, cells, cellobj)
     IN /\ species' = r.species
        /\ species_by_id' = r.species_by_id
        /\ extinct_species' = r.extinct_species
  /\ pc' = "idle"
  /\ ret' = generation
  /\ last_call' = "step"
  /\ UNCHANGED << gridVars, stats, entry, cells, cellobj, next_id, zoneVars, zoneCacheVars,
                  neighborCacheVars, generation, counterVars, localVars, callerVars >>

\* ------------------------------------------------------ the specification
Next ==
  \/ CreateSpecies
  \/ SeedSpecies
  \/ AddZone
  \/ SetupZones
  \/ EnableShifting
  \/ GetStats
  \/ StepBegin
  \/ ProcessAging
  \/ MoveCollect
  \/ MoveOne
  \/ MoveReset
  \/ PredCollectOne
  \/ PredApply
  \/ ReproBegin
  \/ ReproScanLiving
  \/ ReproScanNoBirth
  \/ ReproScanBirth
  \/ ReproApply
  \/ UpdatePopulations

Spec == Init /\ [][Next]_vars


\* ------------------------------------------------------------- properties
\* step() has returned and nothing was called since
AfterStep == pc = "idle" /\ last_call = "step"

\* the Species objects the registry holds, registered or extinct
KnownSpecies ==
  { species_by_id[id] : id \in DOMAIN species_by_id }
    \cup { extinct_species[i] : i \in 1 .. Len(extinct_species) }

\* the Species object that carries the id
SpeciesOf(id) == CHOOSE r \in 1 .. Len(species) : species[r].id = id

\* the zone a site lies in, looked up in the zone list itself
ZoneOfSite(s) == ZoneObj(zones, default_zone, get_zone_at(zones, s[1], s[2]))

\* the cells that were stored in the grid, alive, with energy 0 when the
\* running (or last) step() began
ZeroAtEntry ==
  { r \in DOMAIN entry.cellobj :
      /\ entry.cellobj[r].is_alive
      /\ entry.cellobj[r].energy = 0
      /\ entry.cells[<< entry.cellobj[r].x, entry.cellobj[r].y >>] = r }

\* C1: after every step(), every site that stores a cell stores a living cell
\* whose x and y are the site's coordinates; no dead cell stays in the grid.
C1_StoredCellsAliveInPlace ==
  AfterStep =>
    \A s \in Sites :
      cells[s] # None =>
        /\ cellobj[cells[s]].x = s[1]
        /\ cellobj[cells[s]].y = s[2]
        /\ cellobj[cells[s]].is_alive

\* C2: after every step(), every living cell has 0 <= energy <= max_energy,
\* and max_energy is twice the base_energy of its species.
C2_EnergyWithinBounds ==
  AfterStep =>
    \A s \in Sites :
      LiveAt(cells, cellobj, s) =>
        LET c == cellobj[cells[s]]
        IN /\ 0 <= c.energy
           /\ c.energy <= c.max_energy
           /\ c.max_energy = 2 * species[SpeciesOf(c.species_id)].traits.base_energy

\* C3: after every step(), the population recorded for every species the
\* registry knows, living or extinct, is the number of living cells of the grid
\* with that species_id.
C3_PopulationsMatchGrid ==
  AfterStep =>
    \A r \in KnownSpecies :
      species[r].population =
        Cardinality({ s \in Sites : /\ LiveAt(cells, cellobj, s)
                                    /\ cellobj[cells[s]].species_id = species[r].id })

C3_Witness ==
  /\ AfterStep
  /\ extinct_species # << >>
  /\ \E s \in Sites : cells[s] # None /\ ~cellobj[cells[s]].is_alive
  /\ \E id \in DOMAIN species_by_id : species[species_by_id[id]].population >= 2

\* C4: the call of step() adds exactly 1 to generation, step() returns the new
\* value, and no other step of the program changes generation.
C4_GenerationCountsSteps ==
  [][ /\ (pc = "idle" /\ pc' = "aging") => generation' = generation + 1
      /\ ~(pc = "idle" /\ pc' = "aging") => generation' = generation
      /\ (pc = "update" /\ pc' = "idle") => ret' = generation' ]_vars

C4_Witness ==
  /\ pc = "idle"
  /\ last_call = "get_stats"
  /\ generation >= 2
  /\ \E d \in stats : d.generation = generation

\* C5: at the end of every step(), deaths_this_gen >= 0, births_this_gen >= 0
\* and mutations_this_gen <= births_this_gen.
C5_CountersConsistent ==
  AfterStep =>
    /\ deaths_this_gen >= 0
    /\ births_this_gen >= 0
    /\ mutations_this_gen <= births_this_gen

C5_Witness ==
  /\ AfterStep
  /\ mutations_this_gen >= 1
  /\ births_this_gen >= 1
  /\ deaths_this_gen >= 1

\* C6: no cell is moved to, and no birth is applied at, a site whose zone has
\* can_enter = false at that tick.
C6_NoEntryIntoClosedZones ==
  [][ (pc = "move" \/ (pc = "repro_scan" /\ pc' = "update")) =>
        \A s \in Sites :
          (cells'[s] # None /\ cells'[s] # cells[s]) => ZoneOfSite(s).properties.can_enter ]_vars

\* the births of a tick are applied on a grid with a closed zone, in a tick in
\* which a cell has moved
C6_Witness ==
  /\ pc = "update"
  /\ births_this_gen >= 1
  /\ \E s \in Sites : ~ZoneOfSite(s).properties.can_enter
  /\ \E r \in DOMAIN entry.cellobj :
       << cellobj[r].x, cellobj[r].y >> # << entry.cellobj[r].x, entry.cellobj[r].y >>

\* the event that kills the prey: the first one queued for it
KillingEvent(ref) ==
  predation_events[CHOOSE i \in 1 .. Len(predation_events) :
                     /\ predation_events[i].prey_cell = ref
                     /\ \A j \in 1 .. i - 1 : predation_events[j].prey_cell # ref]

\* C7: every cell killed in the predation phase is of a species with
\* can_be_consumed = true and complexity < 3, other than its predator's.
C7_PreyConsumableAndSimple ==
  [][ (pc = "pred_collect" /\ pc' = "repro_begin") =>
        \A r \in DOMAIN cellobj :
          (cellobj[r].is_alive /\ ~cellobj'[r].is_alive) =>
            LET t == species[SpeciesOf(cellobj[r].species_id)].traits
            IN /\ t.can_be_consumed
               /\ t.complexity < 3
               /\ species[KillingEvent(r).predator_species].id # cellobj[r].species_id ]_vars

\* C8: SpeciesRegistry.get(id) returns the record of every species that was
\* registered, also once the species is extinct.
C8_ExtinctStillQueryable ==
  \A r \in KnownSpecies : RegGet(species_by_id, species[r].id) = r

\* C9: every Species object created, for seeding or by mutate(), has an id
\* greater than the ids of all objects created before it; no id is shared.
C9_IdsStrictlyIncrease ==
  \A i, j \in 1 .. Len(species) : i < j => species[i].id < species[j].id

C9_Witness ==
  /\ Len(species) >= 3
  /\ extinct_species # << >>
  /\ \E r \in 1 .. Len(species) :
       /\ species[r].parent_id # None
       /\ \E i \in 1 .. Len(extinct_species) : extinct_species[i] < r

\* C10 as stated: a living cell with energy 0 at the start of a step is dead at
\* the end of that step.
C10_ZeroEnergyDies ==
  AfterStep => \A r \in ZeroAtEntry : ~cellobj[r].is_alive

\* C10 as amended: a living cell with energy 0 at the start of a step, of a
\* species with photosynthesis_rate = 0, is dead at the end of that step.
C10_ZeroEnergyWithoutGainDies ==
  AfterStep =>
    \A r \in ZeroAtEntry :
      species[SpeciesOf(cellobj[r].species_id)].traits.photosynthesis_rate = 0
        => ~cellobj[r].is_alive

C10_Witness ==
  /\ AfterStep
  /\ \E r \in ZeroAtEntry :
       /\ species[SpeciesOf(cellobj[r].species_id)].traits.photosynthesis_rate = 0
       /\ ~cellobj[r].is_alive
       /\ cellobj[r].age >= 2

\* the ids of the species the registry holds, registered or extinct
KnownIds == { species[r].id : r \in KnownSpecies }

\* every species with a living cell in the grid has mutation_rate = 0
LivingSpeciesNeverMutate ==
  \A s \in Sites :
    LiveAt(cells, cellobj, s) =>
      species[SpeciesOf(cellobj[cells[s]].species_id)].traits.mutation_rate = 0

\* C11: while every species that has living cells has mutation_rate = 0, no
\* step of step() registers a species: the ids the registry knows, living or
\* extinct, stay the same.
C11_NoMutationNoNewSpecies ==
  [][ ((pc # "idle" \/ pc' # "idle") /\ LivingSpeciesNeverMutate) =>
        KnownIds' = KnownIds ]_vars

\* births were applied in the second step of a grid whose species never mutate
C11_Witness ==
  /\ AfterStep
  /\ generation >= 2
  /\ births_this_gen >= 1
  /\ LivingSpeciesNeverMutate
  /\ \E s \in Sites : LiveAt(cells, cellobj, s)
  /\ \A r \in 1 .. Len(species) : species[r].traits.mutation_rate = 0

\* the sites get_neighbors lists for (0, 0) include the opposite corner
CornerCounted == << width - 1, height - 1 >> \in SeqToSet(get_neighbors(0, 0, 1))

\* the count the reproduction scan uses for every site is the number of the
\* eight offsets whose site (modulo the size with wrap on, inside the grid with
\* wrap off) holds a living cell, in the cache and in the scan over get_neighbors
NeighbourCountsAgree ==
  \A s \in Sites :
    LET k == count_living_neighbors(s[1], s[2])
        eight == { d \in (-1 .. 1) \X (-1 .. 1) : d # << 0, 0 >> }
        site(d) == IF wrap THEN << (s[1] + d[1]) % width, (s[2] + d[2]) % height >>
                   ELSE << s[1] + d[1], s[2] + d[2] >>
    IN /\ k = Cardinality({ d \in eight : site(d) \in Sites /\ LiveAt(cells, cellobj, site(d)) })
       /\ k = neighbor_cache[s]
       /\ k = CountLive(cells, cellobj, get_neighbors(s[1], s[2], 1))

\* C12 as stated: the neighbour count used for a site is the number of living
\* cells at its eight neighbour sites (wrapped or clipped), the cache and the
\* scan over get_neighbors agree, and the cell at (width-1, height-1) is a
\* neighbour of (0, 0) with wrap on and is not with wrap off.
C12_NeighbourCount ==
  pc = "repro_scan" =>
    /\ NeighbourCountsAgree
    /\ wrap => CornerCounted
    /\ ~wrap => ~CornerCounted

\* C12 as amended: the same, the cell at (width-1, height-1) not being a
\* neighbour of (0, 0) with wrap off on grids with width > 2 or height > 2.
C12_NeighbourCountLargeGrid ==
  pc = "repro_scan" =>
    /\ NeighbourCountsAgree
    /\ wrap => CornerCounted
    /\ (~wrap /\ (width > 2 \/ height > 2)) => ~CornerCounted

\* on a wrapping grid a living cell in the far corner is counted for (0, 0)
C12_Witness ==
  /\ pc = "repro_scan"
  /\ wrap
  /\ LiveAt(cells, cellobj, << width - 1, height - 1 >>)
  /\ count_living_neighbors(0, 0) >= 1

\* the position of the cell object r
PositionOf(objs, r) == << objs[r].x, objs[r].y >>

\* C13: within one step a cell changes position at most once: a cell that
\* changes position is still where it was when step() began, it is a mover of
\* the snapshot, and the snapshot lists no cell twice.
C13_MovesAtMostOnce ==
  [][ /\ \A r \in DOMAIN cellobj :
           PositionOf(cellobj', r) # PositionOf(cellobj, r) =>
             /\ pc = "move"
             /\ mobile_cells # << >> /\ Head(mobile_cells)[3] = r
             /\ r \in DOMAIN entry.cellobj
             /\ PositionOf(cellobj, r) = PositionOf(entry.cellobj, r)
             /\ ~cellobj[r].has_moved_this_gen
      /\ \A i, j \in 1 .. Len(mobile_cells') :
           mobile_cells'[i][3] = mobile_cells'[j][3] => i = j ]_vars

\* two cells have moved in the tick, and a later mover of the snapshot was
\* displaced before its turn
C13_Witness ==
  /\ pc = "move"
  /\ mobile_cells # << >>
  /\ ~cellobj[Head(mobile_cells)[3]].is_alive
  /\ \E r \in DOMAIN entry.cellobj :
       /\ cellobj[r].has_moved_this_gen
       /\ PositionOf(cellobj, r) # PositionOf(entry.cellobj, r)

\* the predation events that are the first of the collection for their prey
FirstEvents(evs) ==
  SelectSeq([ i \in 1 .. Len(evs) |->
                [ ev |-> evs[i],
                  first |-> \A j \in 1 .. i - 1 : evs[j].prey_cell # evs[i].prey_cell ] ],
            LAMBDA e : e.first)

\* the prey cells of a collection of events
PreyOf(evs) == { evs[i].prey_cell : i \in 1 .. Len(evs) }

\* C14: applying the collected predation events consumes each prey once: the
\* result is that of the first event of each prey alone, one death is counted
\* per prey, and every prey is dead and off the grid afterwards.
C14_PreyConsumedOnce ==
  [][ (pc = "pred_collect" /\ pc' = "repro_begin") =>
        LET firsts == FirstEvents(predation_events)
            only == ApplyEvents([ i \in 1 .. Len(firsts) |-> firsts[i].ev ],
                                [ objs |-> cellobj, cells |-> cells,
                                  deaths |-> deaths_this_gen, species |-> species ])
        IN /\ cellobj' = only.objs
           /\ cells' = only.cells
           /\ species' = only.species
           /\ deaths_this_gen' = deaths_this_gen + Cardinality(PreyOf(predation_events))
           /\ \A r \in PreyOf(predation_events) :
                /\ cellobj[r].is_alive /\ ~cellobj'[r].is_alive
                /\ \A s \in Sites : cells'[s] # r
           /\ \A r \in DOMAIN cellobj :
                (r \notin PreyOf(predation_events) /\ cellobj[r].is_alive)
                  => cellobj'[r].is_alive ]_vars

\* two hunters chose the same prey and the events have been applied
C14_Witness ==
  /\ pc = "repro_begin"
  /\ \E i, j \in 1 .. Len(predation_events) :
       /\ i < j
       /\ predation_events[i].prey_cell = predation_events[j].prey_cell
       /\ predation_events[i].predator_cell # predation_events[j].predator_cell
       /\ ~cellobj[predation_events[i].prey_cell].is_alive
       /\ cellobj[predation_events[j].predator_cell].is_alive

\* the phase of step() a position of the control belongs to (0: outside step)
PhaseOf(p) ==
  CASE p = "idle" -> 0
    [] p = "aging" -> 1
    [] p \in { "move_collect", "move" } -> 2
    [] p = "pred_collect" -> 3
    [] p \in { "repro_begin", "repro_scan" } -> 4
    [] p = "update" -> 5

\* the cell objects created since step() began that the grid stores alive
Newborn(id) ==
  { r \in DOMAIN cellobj \ DOMAIN entry.cellobj :
      /\ cellobj[r].species_id = id
      /\ \E s \in Sites : cells[s] = r /\ cellobj[r].is_alive }

\* C15: a step runs aging, movement, predation, reproduction and the registry
\* update in this order, after the generation increment; a phase is left only
\* when its whole loop is done, and the registry update counts the cells born
\* in this tick.
C15_PhaseOrder ==
  [][ /\ PhaseOf(pc') # PhaseOf(pc) => PhaseOf(pc') = (PhaseOf(pc) + 1) % 6
      /\ (PhaseOf(pc) = 0 /\ PhaseOf(pc') = 1) => generation' = generation + 1
      /\ PhaseOf(pc) # 0 => generation' = generation /\ zones' = zones
      /\ (PhaseOf(pc) = 2 /\ PhaseOf(pc') = 3) => pc = "move" /\ mobile_cells = << >>
      /\ (PhaseOf(pc) = 3 /\ PhaseOf(pc') = 4) => HuntersAhead = {}
      /\ (PhaseOf(pc) = 4 /\ PhaseOf(pc') = 5) =>
           /\ scan = NumSites
           /\ births_this_gen' = births_this_gen + Len(birth_queue)
      /\ PhaseOf(pc) = 5 =>
           /\ UNCHANGED << cells, cellobj >>
           /\ \A id \in DOMAIN species_by_id :
                LET r == species_by_id[id]
                IN /\ species'[r].population = CountLiving(cells, cellobj, id)
                   /\ species'[r].population >= Cardinality(Newborn(id)) ]_vars

\* a step with a birth is over and the registry counts the newborn cell
C15_Witness ==
  /\ AfterStep
  /\ births_this_gen >= 1
  /\ \E id \in DOMAIN species_by_id :
       /\ Newborn(id) # {}
       /\ species[species_by_id[id]].population >= Cardinality(Newborn(id))

\* the sites of a queue of births
BirthSites(q) == { << q[i].x, q[i].y >> : i \in 1 .. Len(q) }

\* C16: the decision of the reproduction scan for a site follows from the
\* living neighbours on the grid as the phase found it, which no step of the
\* scan changes; when the queues are applied no site is in both, every site of
\* the death queue ends empty and every site of the birth queue ends with its
\* newborn cell.
C16_DecisionsOnPhaseStartGrid ==
  [][ pc = "repro_scan" =>
        LET s == SiteAt(scan + 1)
            n == CountLive(cells, cellobj, get_neighbors(s[1], s[2], 1))
        IN /\ pc' = "repro_scan" =>
                /\ cells' = cells
                /\ DOMAIN cellobj' = DOMAIN cellobj
                /\ \A r \in DOMAIN cellobj : cellobj'[r].is_alive = cellobj[r].is_alive
                /\ LiveAt(cells, cellobj, s) =>
                     /\ birth_queue' = birth_queue
                     /\ \/ /\ death_queue' = Append(death_queue, s)
                           /\ TRUE \in DeathSet(cellobj[cells[s]], n)
                        \/ /\ death_queue' = death_queue
                           /\ FALSE \in DeathSet(cellobj[cells[s]], n)
                /\ ~LiveAt(cells, cellobj, s) =>
                     /\ death_queue' = death_queue
                     /\ birth_queue' # birth_queue =>
                          /\ 2 <= n /\ n <= 4
                          /\ Len(birth_queue') = Len(birth_queue) + 1
                          /\ LET b == birth_queue'[Len(birth_queue')]
                                 sp == species'[species_by_id'[b.species_id]]
                             IN /\ << b.x, b.y >> = s
                                /\ \E r \in neighbor_cells(s[1], s[2]) :
                                     cellobj[r].species_id \in { sp.id, sp.parent_id }
           /\ pc' = "update" =>
                /\ SeqToSet(death_queue) \cap BirthSites(birth_queue) = {}
                /\ \A d \in SeqToSet(death_queue) :
                     /\ cells'[d] = None
                     /\ ~cellobj'[cells[d]].is_alive
                /\ \A i \in 1 .. Len(birth_queue) :
                     LET b == birth_queue[i]
                         r == cells'[ << b.x, b.y >>]
                     IN /\ r \in DOMAIN cellobj' \ DOMAIN cellobj
                        /\ cellobj'[r].is_alive
                        /\ cellobj'[r].species_id = b.species_id
                        /\ cellobj'[r].energy = b.energy
                /\ \A t \in Sites \ (SeqToSet(death_queue) \cup BirthSites(birth_queue)) :
                     cells'[t] = cells[t] ]_vars

\* the scan of a reproduction phase is over with a death and a birth queued,
\* the birth next to a living cell whose own death is queued
C16_Witness ==
  /\ pc = "repro_scan"
  /\ scan = NumSites
  /\ \E d \in SeqToSet(death_queue), b \in BirthSites(birth_queue) :
       /\ LiveAt(cells, cellobj, d)
       /\ ~LiveAt(cells, cellobj, b)
       /\ d \in SeqToSet(get_neighbors(b[1], b[2], 1))

\* C17: no step of the decision scan of the reproduction phase changes a cell
\* (energy, alive flag, position) or the content of a site.
C17_ScanLeavesGridAlone ==
  [][ (pc = "repro_scan" /\ pc' = "repro_scan") =>
        /\ cells' = cells
        /\ cellobj' = cellobj ]_vars

\* the grid is the one of the zone-displacement scenario
InDisplacement == << width, height, wrap >> = ScDisplace.shape

\* no site of the rows the VOID zone was created over stores a cell
NoCellInVoidRows == \A s \in Sites : s[2] < VoidRows => cells[s] = None

\* C18 as stated: in the zone-displacement scenario no cell is stored in the
\* rows of the VOID zone after seeding and after every step, however many
\* steps are taken.
C18_VoidRowsStayEmpty ==
  (InDisplacement /\ pc = "idle" /\ cellobj # << >>) => NoCellInVoidRows

\* C18 amended: no cell is stored in the rows of the VOID zone after seeding
\* and after every step before the zone shift of generation 50.
C18_VoidRowsEmptyUntilShift ==
  (InDisplacement /\ pc = "idle" /\ cellobj # << >> /\ generation < ShiftPeriod)
    => NoCellInVoidRows

\* the last step before the zone shift is over: the seeded cells live below
\* the VOID rows, next to its empty sites
C18_Witness ==
  /\ InDisplacement
  /\ AfterStep
  /\ generation = ShiftPeriod - 1
  /\ NoCellInVoidRows
  /\ \A s \in Sites : s[2] >= VoidRows => LiveAt(cells, cellobj, s)
  /\ \A s \in Sites :
       s[2] < VoidRows =>
         ~ZoneObj(zones, default_zone,
                  get_zone_at(zones, s[1], s[2])).properties.can_enter

\* the grid is the one of the still-life scenario
InStillLife == << width, height, wrap >> = ScStill.shape

\* the number of living cells on the grid
Population == Cardinality({ s \in Sites : LiveAt(cells, cellobj, s) })

\* C19: in the still-life scenario, after each step the four sites of the block
\* hold the four seeded cells, alive, no other site holds a living cell,
\* population = 4 and species_count = 1.
C19_StillLife ==
  (InStillLife /\ AfterStep) =>
    /\ \A i \in 1 .. Len(Block) :
         /\ cells[Block[i]] = i
         /\ cellobj[i].is_alive
    /\ Population = 4
    /\ Cardinality(DOMAIN species_by_id) = 1
    /\ species[species_by_id[1]].population = 4

\* the grid is the one of the starvation-sweep scenario
InSweep == << width, height, wrap >> = ScSweep.shape

\* the cells the grid stores
StoredCells == { cells[s] : s \in { t \in Sites : cells[t] # None } }

IsPrey(sp) == sp.traits.complexity = 1 /\ sp.traits.can_be_consumed
IsPredator(sp) ==
  /\ sp.traits.complexity = 3
  /\ sp.traits.energy_source = "predation"
  /\ ~sp.traits.can_be_consumed

\* the run has one prey species and one predator species
InCollapse ==
  /\ Len(species) = 2
  /\ \E p, q \in 1 .. 2 : IsPredator(species[p]) /\ IsPrey(species[q])

\* the number of living cells of the prey (of the predator) species on a grid
PreyPopulation(grid, objs) ==
  Cardinality({ s \in Sites :
    /\ LiveAt(grid, objs, s)
    /\ \E r \in 1 .. Len(species) :
         IsPrey(species[r]) /\ species[r].id = objs[grid[s]].species_id })
PredatorPopulation(grid, objs) ==
  Cardinality({ s \in Sites :
    /\ LiveAt(grid, objs, s)
    /\ \E r \in 1 .. Len(species) :
         IsPredator(species[r]) /\ species[r].id = objs[grid[s]].species_id })

\* C21: in a run with one prey and one predator species, a tick that starts
\* after a tick that left no prey alive does not end with more predators than
\* it started with.
C21_PredatorsDeclineWithoutPrey ==
  [][ ( /\ InCollapse
        /\ pc = "update" /\ pc' = "idle"
        /\ generation >= 2
        /\ PreyPopulation(entry.cells, entry.cellobj) = 0 )
      => PredatorPopulation(cells', cellobj')
           <= PredatorPopulation(entry.cells, entry.cellobj) ]_vars

\* a 'latest-born' statistic in the place of the earliest-born one
oldest_species_latest(specs, byid) ==
  LET born == { specs[byid[id]].generation_born : id \in DOMAIN byid }
  IN CHOOSE g \in born : \A h \in born : g >= h

\* SpeciesRegistry.get_stats, 'oldest_species': the generation_born of the
\* earliest-born species among the registry's living species
oldest_species(specs, byid) ==
  LET born == { specs[byid[id]].generation_born : id \in DOMAIN byid }
  IN CHOOSE g \in born : \A h \in born : g <= h

\* the living species that are as old as the oldest one
Eldest(specs, byid) ==
  { id \in DOMAIN byid :
      specs[byid[id]].generation_born = oldest_species(specs, byid) }

\* a step of a tick with living species before and after it
TickStepWithSpecies ==
  /\ pc # "idle"
  /\ DOMAIN species_by_id # {}
  /\ DOMAIN species_by_id' # {}

\* C22 (as stated): the generation_born of the earliest-born living species
\* never increases in the course of a tick, so never from one tick to the next.
C22_OldestNeverYounger ==
  [][ TickStepWithSpecies
      => oldest_species(species', species_by_id')
           <= oldest_species(species, species_by_id) ]_vars

\* C22 (amended): it never increases in the course of a tick at whose registry
\* update one of the earliest-born living species still has a living cell.
C22_OldestNeverYoungerWhileAlive ==
  [][ ( /\ TickStepWithSpecies
        /\ pc = "update"
             => \E id \in Eldest(species, species_by_id) :
                  CountLiving(cells, cellobj, id) > 0 )
      => oldest_species(species', species_by_id')
           <= oldest_species(species, species_by_id) ]_vars

\* a tick has ended with the earliest-born species alive beside a younger one
C22_Witness ==
  /\ pc = "idle"
  /\ last_call = "step"
  /\ \E a, b \in DOMAIN species_by_id :
       /\ a \in Eldest(species, species_by_id)
       /\ species[species_by_id[b]].generation_born
            > species[species_by_id[a]].generation_born
       /\ CountLiving(cells, cellobj, a) > 0
       /\ CountLiving(cells, cellobj, b) > 0

\* seed_species is about to run with a negative population
NegativeSeeding ==
  /\ pc = "idle"
  /\ pending # None
  /\ Head(script).population < 0

\* C23: no grid exists with width <= 0 or height <= 0, and a seeding with a
\* negative population leaves the registry and the cell array as they were.
C23_InvalidConfigurationRejected ==
  /\ width > 0 /\ height > 0
  /\ [][ NegativeSeeding => UNCHANGED << species_by_id, cells, cellobj >> ]_vars

\* seed_species is about to run with a population that is not negative
Seeding ==
  /\ pc = "idle"
  /\ pending # None
  /\ Head(script).population >= 0

\* the state of the placement loop when seed_species leaves it
SeedingOutcome ==
  SeedRandom(Head(script).draws, Head(script).population, species[pending],
             [ cells |-> cells, objs |-> cellobj, placed |-> 0,
               attempts |-> 0, counts |-> << >> ])

\* C24: a random seeding makes at most 100 * population attempts and places
\* k <= population cells, each on a site that was empty and whose zone allows
\* entry, leaving every cell already on the grid in place; it returns without
\* an error also when k < population, and it reports k.
C24_SeedingPlacesAndReports ==
  [][ ( Seeding /\ pending' = None )
      => LET population == Head(script).population
             new == (Len(cellobj) + 1) .. Len(cellobj')
             k == Len(cellobj') - Len(cellobj)
         IN /\ SeedingOutcome.attempts <= 100 * population
            /\ k <= population
            /\ \A s \in Sites : cells[s] # None => cells'[s] = cells[s]
            /\ Cardinality({ s \in Sites : cells'[s] # cells[s] }) = k
            /\ \A r \in new :
                 \E s \in Sites :
                   /\ cells'[s] = r
                   /\ cells[s] = None
                   /\ ZoneObj(zones, default_zone,
                              get_zone_at(zones, s[1], s[2])).properties.can_enter
                   /\ cellobj'[r].x = s[1] /\ cellobj'[r].y = s[2]
                   /\ cellobj'[r].species_id = species[pending].id
            /\ \A r \in DOMAIN cellobj : cellobj'[r] = cellobj[r]
            /\ last_call' = "seed_species"
            /\ stdout' # << >>
            /\ stdout'[Len(stdout')] = << "Seeded", k, species[pending].id >> ]_vars

\* a seeding that asked for three cells has returned with the two it placed on
\* the last free sites of the grid
C24_Witness ==
  /\ last_call = "seed_species"
  /\ script = << CallReturn >>
  /\ Len(species) = 3
  /\ \A s \in Sites : cells[s] # None
  /\ Len(cellobj) = NumSites
  /\ stdout[Len(stdout)] = << "Seeded", 2, species[3].id >>

\* the ranges of the ranged traits (fractions in hundredths, the mutation rate
\* in thousandths)
TraitsInRange(t) ==
  /\ t.base_energy \in 1 .. 200
  /\ t.energy_decay \in 1 .. 10
  /\ t.photosynthesis_rate \in 0 .. 20
  /\ t.hunting_efficiency \in 0 .. 80
  /\ t.colonial_affinity \in 100 .. 150
  /\ t.cluster_reproduction_bonus \in 100 .. 200
  /\ t.mutation_rate \in 0 .. 1000
  /\ t.complexity \in 1 .. 5
  /\ t.metabolic_efficiency \in 50 .. 200
  /\ t.heat_tolerance \in 0 .. 100
  /\ t.cold_tolerance \in 0 .. 100
  /\ t.toxin_resistance \in 0 .. 100
  /\ t.max_lifespan \in 0 .. 1000
  /\ t.age_decline_start \in 0 .. 100
  /\ t.native_zone_affinity \in 100 .. 200

\* C25: the traits of every species constructed from a caller's trait record
\* are in range, and its movement_cost is 1 + complexity // 2.
C25_ConstructedTraitsInRange ==
  \A r \in 1 .. Len(species) :
    species[r].parent_id = None
      => /\ TraitsInRange(species[r].traits)
         /\ species[r].traits.movement_cost = 1 + (species[r].traits.complexity \div 2)

\* C26: every species produced by mutate(), along any lineage, has every
\* ranged trait in its range.
C26_MutantTraitsInRange ==
  \A r \in 1 .. Len(species) :
    species[r].parent_id # None => TraitsInRange(species[r].traits)

\* the traits of the species of a stored cell
TraitsOf(c) == species[RegGet(species_by_id, c.species_id)].traits

\* no living cell is as old as the max_lifespan of its species
NoCellPastLifespan ==
  \A s \in Sites :
    LiveAt(cells, cellobj, s) =>
      LET L == TraitsOf(cellobj[cells[s]]).max_lifespan
      IN L > 0 => cellobj[cells[s]].age < L

\* C27: no living cell has age >= max_lifespan > 0; the aging phase kills every
\* living cell whose age reaches max_lifespan > 0 and counts every death it
\* causes; a cell of a species with max_lifespan = 0 that dies in the aging
\* phase has starved.
C27_OldAgeDeath ==
  /\ NoCellPastLifespan
  /\ [][ ( pc = "aging" /\ pc' = "move_collect" )
         => LET live == { s \in Sites : LiveAt(cells, cellobj, s) }
                died == { s \in live : ~cellobj'[cells[s]].is_alive }
            IN /\ \A s \in live :
                    LET c == cellobj[cells[s]]
                        L == TraitsOf(c).max_lifespan
                    IN /\ cellobj'[cells[s]].age = c.age + 1
                       /\ (L > 0 /\ c.age + 1 >= L) => s \in died
                       /\ (L = 0 /\ s \in died)
                            => cellobj'[cells[s]].energy
                                 < Max2(1, TraitsOf(c).starvation_threshold)
               /\ deaths_this_gen' = deaths_this_gen + Cardinality(died) ]_vars

\* the aging phase has just killed a cell that reached the max_lifespan of its
\* species, and counted it
C27_Witness ==
  /\ pc = "move_collect"
  /\ deaths_this_gen >= 1
  /\ \E s \in Sites :
       /\ cells[s] # None
       /\ ~cellobj[cells[s]].is_alive
       /\ cellobj[cells[s]].species_id \in DOMAIN species_by_id
       /\ TraitsOf(cellobj[cells[s]]).max_lifespan > 0
       /\ cellobj[cells[s]].age = TraitsOf(cellobj[cells[s]]).max_lifespan
       /\ cellobj[cells[s]].energy >= TraitsOf(cellobj[cells[s]]).starvation_threshold

\* the neighbour counts with which a living cell can pass the survival test
SurvivalWindow(c) ==
  IF 10 * c.energy > 4 * c.max_energy THEN { 2, 3 } ELSE { 3, 4 }

\* the living cells of the grid
LiveCells == { s \in Sites : LiveAt(cells, cellobj, s) }

\* C28: the scan queues the death of every living cell whose neighbour count
\* is outside the window of its energy ratio (2-3 above 0.4, 3-4 otherwise),
\* and the end of the phase removes every queued cell and counts each as one
\* death, leaving the other living cells in place.
C28_SurvivalWindow ==
  [][ /\ ( pc = "repro_scan" /\ scan < NumSites /\ scan' = scan + 1
           /\ LiveAt(cells, cellobj, SiteAt(scan + 1)) )
        => LET s == SiteAt(scan + 1)
               k == count_living_neighbors(s[1], s[2])
           IN /\ k \notin SurvivalWindow(cellobj[cells[s]])
                   => death_queue' = Append(death_queue, s)
              /\ death_queue' \in { death_queue, Append(death_queue, s) }
      /\ ( pc = "repro_scan" /\ pc' = "update" )
        => LET queued == SeqToSet(death_queue)
           IN /\ Cardinality(queued) = Len(death_queue)
              /\ queued \subseteq LiveCells
              /\ \A s \in queued : cells'[s] = None /\ ~cellobj'[cells[s]].is_alive
              /\ \A s \in LiveCells \ queued : cells'[s] = cells[s] /\ cellobj'[cells[s]].is_alive
              /\ deaths_this_gen' = deaths_this_gen + Len(death_queue) ]_vars

\* the scan has just queued the death of a cell with two living neighbours
\* whose energy is at most 0.4 of its max_energy
C28_Witness ==
  /\ pc = "repro_scan"
  /\ scan >= 1
  /\ death_queue # << >>
  /\ death_queue[Len(death_queue)] = SiteAt(scan)
  /\ LiveAt(cells, cellobj, SiteAt(scan))
  /\ count_living_neighbors(SiteAt(scan)[1], SiteAt(scan)[2]) = 2
  /\ 10 * cellobj[cells[SiteAt(scan)]].energy <= 4 * cellobj[cells[SiteAt(scan)]].max_energy

\* the species of the parent the scan chose for the birth it queued last: the
\* species of the newborn, or the species that one was mutated from
ParentSpecies ==
  LET b == birth_queue'[Len(birth_queue')]
  IN IF b.species_id \in DOMAIN species_by_id
     THEN species[species_by_id[b.species_id]]
     ELSE species[species_by_id[species'[species_by_id'[b.species_id]].parent_id]]

\* C29: the scan queues a birth for a parent of a species with
\* sexual_reproduction only at a site with two living neighbours of that species
\* (the parent and a partner), and a cell is born in the phase only where a
\* birth is queued.
C29_SexualBirthNeedsPartner ==
  [][ /\ ( pc = "repro_scan" /\ scan' = scan + 1 /\ birth_queue' # birth_queue )
        => LET s == SiteAt(scan + 1)
               same == { o \in neighbor_cells(s[1], s[2]) :
                           cellobj[o].species_id = ParentSpecies.id }
           IN /\ birth_queue' = Append(birth_queue, birth_queue'[Len(birth_queue')])
              /\ birth_queue'[Len(birth_queue')].x = s[1]
              /\ birth_queue'[Len(birth_queue')].y = s[2]
              /\ ParentSpecies.traits.sexual_reproduction => Cardinality(same) >= 2
      /\ ( pc = "repro_scan" /\ pc' = "update" )
        => \A r \in (Len(cellobj) + 1) .. Len(cellobj') :
             \E i \in 1 .. Len(birth_queue) :
               /\ birth_queue[i].x = cellobj'[r].x
               /\ birth_queue[i].y = cellobj'[r].y
               /\ birth_queue[i].species_id = cellobj'[r].species_id ]_vars

\* the scan has just queued a birth between two cells of a species with
\* sexual_reproduction
C29_Witness ==
  /\ pc = "repro_scan"
  /\ scan >= 1
  /\ birth_queue # << >>
  /\ LET b == birth_queue[Len(birth_queue)]
     IN /\ << b.x, b.y >> = SiteAt(scan)
        /\ b.species_id \in DOMAIN species_by_id
        /\ species[species_by_id[b.species_id]].traits.sexual_reproduction
        /\ Cardinality({ o \in neighbor_cells(b.x, b.y) :
                           cellobj[o].species_id = b.species_id }) >= 2

\* the Chebyshev distance of two sites, around the edges with wrap on
ChebyshevDistance(a, b) ==
  LET dx == Abs(a[1] - b[1])
      dy == Abs(a[2] - b[2])
      wx == IF wrap THEN Min2(dx, width - dx) ELSE dx
      wy == IF wrap THEN Min2(dy, height - dy) ELSE dy
  IN Max2(wx, wy)

\* C30: a move takes a living cell with energy >= movement_cost from its site,
\* which becomes empty, to a site at Chebyshev distance 1 (up to 2 with energy
\* below 0.5 or above 1.5 times reproduction_threshold) that is empty or holds
\* a living cell with energy * 1.1 below the mover's; the mover pays exactly
\* movement_cost and keeps energy >= 0, a displaced occupant is dead and counted
\* as one death, and nothing else on the grid changes.
C30_AppliedMove ==
  [][ ( pc = "move" /\ mobile_cells # << >> /\ cells' # cells )
      => LET old == << Head(mobile_cells)[1], Head(mobile_cells)[2] >>
             ref == Head(mobile_cells)[3]
             c == cellobj[ref]
             t == TraitsOf(c)
             far == 2 * c.energy < t.reproduction_threshold
                      \/ 2 * c.energy > 3 * t.reproduction_threshold
         IN /\ cells[old] = ref
            /\ c.is_alive
            /\ c.energy >= t.movement_cost
            /\ cells'[old] = None
            /\ \E target \in Sites \ { old } :
                 /\ cells'[target] = ref
                 /\ \A s \in Sites \ { old, target } : cells'[s] = cells[s]
                 /\ ChebyshevDistance(old, target) >= 1
                 /\ ChebyshevDistance(old, target) <= (IF far THEN 2 ELSE 1)
                 /\ cellobj'[ref] = [ c EXCEPT !.x = target[1], !.y = target[2],
                                               !.energy = c.energy - t.movement_cost,
                                               !.has_moved_this_gen = TRUE ]
                 /\ cellobj'[ref].energy >= 0
                 /\ IF cells[target] = None
                    THEN /\ deaths_this_gen' = deaths_this_gen
                         /\ \A r \in DOMAIN cellobj : r # ref => cellobj'[r] = cellobj[r]
                    ELSE /\ cellobj[cells[target]].is_alive
                         /\ 11 * cellobj[cells[target]].energy < 10 * c.energy
                         /\ ~cellobj'[cells[target]].is_alive
                         /\ deaths_this_gen' = deaths_this_gen + 1
                         /\ \A r \in DOMAIN cellobj :
                              r \notin { ref, cells[target] } => cellobj'[r] = cellobj[r] ]_vars

\* a cell has just moved onto the site of a weaker living cell, which is dead
\* and counted
C30_Witness ==
  /\ pc = "move"
  /\ deaths_this_gen >= 1
  /\ \E s \in Sites :
       /\ LiveAt(cells, cellobj, s)
       /\ cellobj[cells[s]].has_moved_this_gen
       /\ entry.cells[s] # None
       /\ entry.cells[s] # cells[s]
       /\ ~cellobj[entry.cells[s]].is_alive
       /\ 11 * cellobj[entry.cells[s]].energy
            < 10 * (cellobj[cells[s]].energy + TraitsOf(cellobj[cells[s]]).movement_cost)

\* the zone a site lies in, looked up in the zone list itself
ZoneAt(s) == ZoneObj(zones, default_zone, get_zone_at(zones, s[1], s[2]))

\* energy_generation_mult - energy_decay_mult of the zone of a site, in tenths
SeekScore(s) ==
  ZoneAt(s).properties.energy_generation_mult - ZoneAt(s).properties.energy_decay_mult

\* the sites the cell c at site old may move to: in range, open to entry, and
\* empty or held by a living cell with energy * 1.1 below the mover's
EligibleSites(old, c) ==
  LET t == TraitsOf(c)
      far == 2 * c.energy < t.reproduction_threshold
               \/ 2 * c.energy > 3 * t.reproduction_threshold
  IN { s \in Sites :
         /\ ChebyshevDistance(old, s) >= 1
         /\ ChebyshevDistance(old, s) <= (IF far THEN 2 ELSE 1)
         /\ ZoneAt(s).properties.can_enter
         /\ \/ cells[s] = None
            \/ /\ cellobj[cells[s]].is_alive
               /\ 11 * cellobj[cells[s]].energy < 10 * c.energy }

\* the step moves the cell at the head of mobile_cells, a cell of a species
\* with the seek strategy
SeekerMoves ==
  /\ pc = "move"
  /\ mobile_cells # << >>
  /\ cells' # cells
  /\ get_movement_strategy(TraitsOf(cellobj[Head(mobile_cells)[3]])) = "energy_seeking"

\* C31 as stated: when a cell using the seek strategy moves, its destination
\* has the largest energy_generation_mult - energy_decay_mult of all eligible
\* sites in range.
C31_SeekMaximizes ==
  [][ SeekerMoves
      => LET old == << Head(mobile_cells)[1], Head(mobile_cells)[2] >>
             ref == Head(mobile_cells)[3]
         IN \E target \in EligibleSites(old, cellobj[ref]) :
              /\ cells'[target] = ref
              /\ \A s \in EligibleSites(old, cellobj[ref]) :
                   SeekScore(s) <= SeekScore(target) ]_vars

\* C31 amended: when a cell using the seek strategy moves and some eligible
\* site in range has energy_generation_mult - energy_decay_mult above the
\* energy_generation_mult of the zone the cell leaves, its destination has the
\* largest energy_generation_mult - energy_decay_mult of all eligible sites in
\* range; when no eligible site has, the destination is any eligible site.
C31_SeekMaximizesWhenBetter ==
  [][ SeekerMoves
      => LET old == << Head(mobile_cells)[1], Head(mobile_cells)[2] >>
             ref == Head(mobile_cells)[3]
             better == \E s \in EligibleSites(old, cellobj[ref]) :
                         SeekScore(s) > ZoneAt(old).properties.energy_generation_mult
         IN \E target \in EligibleSites(old, cellobj[ref]) :
              /\ cells'[target] = ref
              /\ better => \A s \in EligibleSites(old, cellobj[ref]) :
                             SeekScore(s) <= SeekScore(target) ]_vars

\* a seeker has left a site for one whose zone scores above the
\* energy_generation_mult of the zone it left, although an empty site open to
\* entry with a lower score was in its range
C31_Witness ==
  /\ pc = "move"
  /\ \E s \in Sites, o \in Sites :
       /\ o # s
       /\ LiveAt(cells, cellobj, s)
       /\ cellobj[cells[s]].has_moved_this_gen
       /\ get_movement_strategy(TraitsOf(cellobj[cells[s]])) = "energy_seeking"
       /\ entry.cells[o] = cells[s]
       /\ SeekScore(s) > ZoneAt(o).properties.energy_generation_mult
       /\ \E q \in Sites \ { o, s } :
            /\ ChebyshevDistance(o, q) <= 2
            /\ entry.cells[q] = None
            /\ cells[q] = None
            /\ ZoneAt(q).properties.can_enter
            /\ SeekScore(q) < SeekScore(s)

\* the events of the list that find their prey alive: the first one per prey
AppliedEvents(evs) ==
  { i \in 1 .. Len(evs) : \A j \in 1 .. i - 1 : evs[j].prey_cell # evs[i].prey_cell }

\* round(energy * min(0.8, 0.35 + 0.15 * complexity)) for energy >= 0
RoundedTransfer(energy, complexity) ==
  (energy * Min2(80, 35 + 15 * complexity) + 50) \div 100

\* C32: an applied predation event on a prey with energy e by a predator of
\* complexity c leaves the predator with min(max_energy, energy +
\* round(e * min(0.8, 0.35 + 0.15 * c))); no cell loses energy in the predation
\* phase, and the prey is dead and its site empty afterwards.  The gain is
\* stated for the events whose predator and prey take part in no other event
\* of the phase.
C32_PredationTransfer ==
  [][ (pc = "pred_collect" /\ pc' = "repro_begin") =>
        /\ \A r \in DOMAIN cellobj : cellobj'[r].energy >= cellobj[r].energy
        /\ \A i \in AppliedEvents(predation_events) :
             LET ev == predation_events[i]
                 pred == cellobj[ev.predator_cell]
                 prey == cellobj[ev.prey_cell]
                 alone == \A j \in 1 .. Len(predation_events) :
                            /\ predation_events[j].prey_cell # ev.predator_cell
                            /\ predation_events[j].predator_cell # ev.prey_cell
             IN /\ ~cellobj'[ev.prey_cell].is_alive
                /\ \A s \in Sites : cells[s] = ev.prey_cell => cells'[s] = None
                /\ alone =>
                     cellobj'[ev.predator_cell].energy =
                       Min2(pred.max_energy,
                            pred.energy
                              + RoundedTransfer(prey.energy,
                                                species[ev.predator_species].traits.complexity))
   ]_vars

\* the living cells inside the rectangle of a zone
CellsInZone(z) ==
  Cardinality({ s \in Sites : contains(z, s[1], s[2]) /\ LiveAt(cells, cellobj, s) })

\* two rationals denote the same number
SameNumber(a, b) == a[1] * b[2] = b[1] * a[2]

\* the pressure of C33 for n cells and capacity c: between half the capacity
\* and the capacity, the line through 1.3 at n = 0.5c and 1.0 at n = c
StatedPressure(n, c) ==
  IF c = 0 THEN << 0, 1 >>
  ELSE IF 2 * n < c THEN << 13, 10 >>
  ELSE IF n < c THEN << 13 * c - 3 * (2 * n - c), 10 * c >>
  ELSE IF 10 * n < 13 * c THEN << 10 * c - 10 * (n - c), 10 * c >>
  ELSE << 6, 10 >>

\* the same with 1.3 - 0.3 * n / c between half the capacity and the capacity
RatioPressure(n, c) ==
  IF c = 0 THEN << 0, 1 >>
  ELSE IF 2 * n < c THEN << 13, 10 >>
  ELSE IF n < c THEN << 13 * c - 3 * n, 10 * c >>
  ELSE IF 10 * n < 13 * c THEN << 10 * c - 10 * (n - c), 10 * c >>
  ELSE << 6, 10 >>

\* process_aging rebuilds the pressure cache in this step
PressureCached ==
  pc = "aging" /\ pc' = "move_collect" /\ zone_cache_generation # generation

ShiftDue ==
  /\ pc = "idle" /\ pc' = "aging"
  /\ zones # << >>
  /\ \/ generation' % ShiftPeriod = 0
     \/ shift_enabled /\ zm_generation' % shift_interval = 0

\* C34: after every zone shift every zone rectangle lies inside the grid:
\* 0 <= x, x + width <= grid width, 0 <= y and y + height <= grid height.
C34_ZonesInsideGrid ==
  [][ ShiftDue
      => \A i \in 1 .. Len(zones') :
           /\ 0 <= zones'[i].x
           /\ zones'[i].x + zones'[i].width <= width
           /\ 0 <= zones'[i].y
           /\ zones'[i].y + zones'[i].height <= height ]_vars

\* the Species object a mutant was produced from
ParentOf(r) == CHOOSE q \in 1 .. Len(species) : species[q].id = species[r].parent_id

\* C35: the integer traits of a species produced by mutate() are those of its
\* parent plus the drawn deltas, clamped to the range of the trait: [0, 1000]
\* for max_lifespan, [0, 20] for photosynthesis_rate, [1, 10] for
\* energy_decay, [1, 5] for complexity and [1, 200] for base_energy, so that a
\* draw that takes max_lifespan or photosynthesis_rate to 0 or below yields 0.
C35_IntegerTraitsClamped ==
  \A r \in 1 .. Len(species) :
    species[r].parent_id # None
      => LET t == species[r].traits
             p == species[ParentOf(r)].traits
         IN \E d \in MutationDraws :
              /\ t.max_lifespan = Clamp(0, 1000, p.max_lifespan + d.max_lifespan)
              /\ t.photosynthesis_rate
                   = Clamp(0, 20, p.photosynthesis_rate + d.photosynthesis_rate)
              /\ t.energy_decay = Clamp(1, 10, p.energy_decay + d.energy_decay)
              /\ t.complexity = Clamp(1, 5, p.complexity + d.complexity)
              /\ t.base_energy = Clamp(1, 200, p.base_energy + d.base_energy)

\* the loop of process_aging with the sites visited in the given order
RECURSIVE AgingInOrder(_, _, _, _, _)
AgingInOrder(order, k, st, zc, pcache) ==
  IF k > Len(order) THEN st
  ELSE AgingInOrder(order, k + 1, AgeSite(order[k], st, zc, pcache), zc, pcache)

\* visiting orders: the row-major scan started at any site and wrapped around,
\* and the scan from the last site back to the first
VisitOrders ==
  { [ k \in 1 .. NumSites |-> ((k - 1 + r) % NumSites) + 1 ] : r \in 0 .. NumSites - 1 }
    \cup { [ k \in 1 .. NumSites |-> NumSites + 1 - k ] }

\* C36: with the caches built at the start of the phase, the aging phase
\* leaves every cell's energy, age and alive flag and the number of deaths
\* counted the same for every order in which the cells are visited.
C36_AgingOrderIndependent ==
  [][ (pc = "aging" /\ pc' = "move_collect")
      => \A order \in VisitOrders :
           LET st == AgingInOrder(order, 1,
                                  [ objs |-> cellobj, species |-> species,
                                    deaths |-> deaths_this_gen ],
                                  zone_cache', zone_pressure_cache')
           IN st.objs = cellobj' /\ st.deaths = deaths_this_gen' ]_vars

\* a step() is running, or has returned and nothing was called since
InOrAfterStep == pc # "idle" \/ AfterStep

\* C37: during and after every step(), the number of living cells on the grid
\* equals the number of living cells the step found, minus deaths_this_gen,
\* plus births_this_gen: every death of every phase is counted once and every
\* counted birth adds one living cell.
C37_PopulationConserved ==
  InOrAfterStep
    => Cardinality(LivingSites(cells, cellobj))
         = Cardinality(LivingSites(entry.cells, entry.cellobj))
             - deaths_this_gen + births_this_gen

\* a step() with deaths and births that changed the number of living cells
\* has returned; one of the dead was displaced by a mover or eaten, one died
\* in the aging phase and is still stored
C37_Witness ==
  /\ AfterStep
  /\ births_this_gen >= 1
  /\ deaths_this_gen >= 2
  /\ Cardinality(LivingSites(cells, cellobj))
       # Cardinality(LivingSites(entry.cells, entry.cellobj))
  /\ \E r \in DOMAIN entry.cellobj :
       /\ entry.cellobj[r].is_alive /\ ~cellobj[r].is_alive
       /\ \A s \in Sites : cells[s] # r

\* the sum of a counter over all Species objects, living and extinct
RECURSIVE SumOver(_, _)
SumOver(specs, field) ==
  IF specs = << >> THEN 0
  ELSE (IF field = "total_deaths" THEN Head(specs).total_deaths
        ELSE Head(specs).total_births) + SumOver(Tail(specs), field)

\* C38: every death counted in a tick is attributed to a species: during and
\* after every step(), the sum of total_deaths over all species has grown by
\* deaths_this_gen since the step began, and the sum of total_births by
\* births_this_gen.
C38_DeathsAttributed ==
  InOrAfterStep
    => /\ SumOver(species, "total_deaths") - SumOver(entry.species, "total_deaths")
            = deaths_this_gen
       /\ SumOver(species, "total_births") - SumOver(entry.species, "total_births")
            = births_this_gen

\* the predator of the i-th collected event is the prey of an earlier event
\* of the list, so it is dead when the i-th event is reached
ConsumedBefore(i) ==
  \E j \in 1 .. i - 1 :
    predation_events[j].prey_cell = predation_events[i].predator_cell

\* C39: an event whose predator was consumed earlier in the same predation
\* phase has no effect: that predator's energy is what it was when the events
\* were collected, and a prey that no other event selected is still alive
\* after the phase.
C39_DeadPredatorsDoNotFeed ==
  [][ (pc = "pred_collect" /\ pc' = "repro_begin")
      => \A i \in 1 .. Len(predation_events) :
           ConsumedBefore(i)
             => LET ev == predation_events[i]
                IN /\ cellobj'[ev.predator_cell].energy = cellobj[ev.predator_cell].energy
                   /\ (\A j \in 1 .. Len(predation_events) :
                         j # i => predation_events[j].prey_cell # ev.prey_cell)
                        => cellobj'[ev.prey_cell].is_alive ]_vars

\* -------------------------------------------------- the neighbour count between the ticks
\* the places where count_living_neighbors can be called: the scan of
\* process_reproduction inside a step, and the caller's code between two calls
CallPoint == pc \in { "repro_scan", "idle" }

\* C40: whenever count_living_neighbors(x, y) is called, inside a step or
\* between steps (after step() has returned or after further seeding), it
\* returns the number of living cells currently at the neighbour sites of
\* (x, y); the neighbour-count cache is never read when it no longer reflects
\* the grid.
C40_NeighbourCountCurrent ==
  CallPoint =>
    \A s \in Sites :
      count_living_neighbors(s[1], s[2]) = CountLive(cells, cellobj, get_neighbors(s[1], s[2], 1))

====
